---- MODULE Spec2Model ----
(***************************************************************************)
(* Model of the BCP migration scripts: the two import drivers              *)
(* (import_from_s3.py, import_local.py), the export driver (main.py) and   *)
(* the merge driver (merge.py).                                            *)
(*                                                                         *)
(* Text is modelled as a sequence of one-character strings, so that the    *)
(* string functions of the scripts (strip, upper, endswith, Path.name,     *)
(* Path.stem, re.match, int) are computed character by character.          *)
(***************************************************************************)
EXTENDS Integers, Sequences, FiniteSets, TLC

VARIABLES
    driver,       \* which script runs ("s3", "local", "export", "merge") or which function is called
    pc,           \* position of the script
    env,          \* the environment variables read by os.getenv
    max_errors,   \* main(): parsed BCP_MAX_ERRORS
    db,           \* the staging database: bracketed table name -> table
    object_key,   \* import_from_s3.main(): object_key
    local_file,   \* main(): name of the local file handed on between the stages
    tables,       \* main(): raw_table, table_for_sql, table_for_bcp, base_table_for_sql
    answer,       \* confirm_truncate(): the text typed by the operator
    proc,         \* the last subprocess result: returncode, stdout, stderr
    load,         \* run_bcp_import(): its outcome
    raised,       \* the kind of the exception that ended the run or the script, "" for none
    calls,        \* log of the external invocations issued so far
    started,      \* log of the pipeline stages started so far
    scripts,      \* batch drivers: sql_files
    idx,          \* batch drivers: position of the for loop
    failures,     \* batch drivers: the failures list
    exit_status,  \* the status the process exits with: 0 unless sys.exit(1) or an uncaught exception
    fn_arg,       \* function call: the argument
    fn_ret        \* function call: the returned value

vars == <<driver, pc, env, max_errors, db, object_key, local_file, tables, answer,
          proc, load, raised, calls, started, scripts, idx, failures, exit_status,
          fn_arg, fn_ret>>

\* Python's None where a text is expected: a value no text of the model equals
None == <<"None">>

\* max_errors before main() assigns it
Unset == -1

(***************************************************************************)
(* Bounds                                                                  *)
(***************************************************************************)
MaxPrefixLen == 2    \* longest free part of a file name given to infer_table_name_from_file
MaxDeviations == 1   \* how many settings differ from a complete configuration
MaxEnvLen == 2       \* longest text of BCP_MAX_ERRORS
MaxRows == 1         \* most rows a table holds
MaxObjects == 2      \* most objects in a listing of the bucket or the directory
MaxPad == 1          \* most blanks typed before or after the confirmation
MaxScripts == 3      \* most scripts in a batch
MaxErrFileLen == 6   \* most characters in the error file of bcp
MaxRawLen == 5       \* longest raw table name given to parse_table_name
MaxPartLen == 2      \* longest schema or table part of a rendered identity
MaxStemLen == 2      \* longest free part of a path given to maybe_decompress_gzip
MaxPayloadLen == 2   \* most bytes in a file before compression
MaxMergeScripts == 2 \* most scripts merge.py is given when started at its loop

(***************************************************************************)
(* Text helpers                                                            *)
(***************************************************************************)
SeqsUpTo(S, n) == UNION {[1..k -> S] : k \in 0..n}

EndsWith(s, suf) ==
    /\ Len(s) >= Len(suf)
    /\ SubSeq(s, Len(s) - Len(suf) + 1, Len(s)) = suf

StartsWith(s, pre) ==
    /\ Len(s) >= Len(pre)
    /\ SubSeq(s, 1, Len(pre)) = pre

DropLast(s, n) == SubSeq(s, 1, Len(s) - n)

Contains(s, c) == \E i \in 1..Len(s) : s[i] = c

\* str.rfind(c) + 1: the last position of c, 0 when absent
RFind(s, c) ==
    IF Contains(s, c)
    THEN CHOOSE i \in 1..Len(s) : s[i] = c /\ \A j \in (i+1)..Len(s) : s[j] # c
    ELSE 0

\* str.find(c) + 1: the first position of c, 0 when absent
Find(s, c) ==
    IF Contains(s, c)
    THEN CHOOSE i \in 1..Len(s) : s[i] = c /\ \A j \in 1..(i-1) : s[j] # c
    ELSE 0

Digits == {"0", "1", "2", "3", "4", "5", "6", "7", "8", "9"}

AllDigits(s) == \A i \in 1..Len(s) : s[i] \in Digits

GZ == <<".", "g", "z">>
BCP == <<".", "b", "c", "p">>

(***************************************************************************)
(* pathlib (POSIX flavour)                                                 *)
(***************************************************************************)
\* Path(p).name: the last component of p that is neither empty nor "."
PathName(p) ==
    LET IsComp(i, j) ==
            /\ i <= j
            /\ \A k \in i..j : p[k] # "/"
            /\ (i = 1 \/ p[i-1] = "/")
            /\ (j = Len(p) \/ p[j+1] = "/")
            /\ SubSeq(p, i, j) # <<".">>
        Comps == {ij \in (1..Len(p)) \X (1..Len(p)) : IsComp(ij[1], ij[2])}
    IN  IF Comps = {} THEN <<>>
        ELSE LET last == CHOOSE ij \in Comps : \A o \in Comps : o[1] <= ij[1]
             IN  SubSeq(p, last[1], last[2])

\* Path(name).stem for a name without separator
PathStem(name) ==
    LET n == PathName(name)
        i == RFind(n, ".") - 1
    IN  IF 0 < i /\ i < Len(n) - 1 THEN SubSeq(n, 1, i) ELSE n

(***************************************************************************)
(* infer_table_name_from_file                                              *)
(***************************************************************************)
StampLen == 16

\* as ReMatchStamp, for the pattern r"(.+)_\d{6}$": the date part is not matched
ReMatchTimeOnly(stem) ==
    LET ok == /\ Len(stem) > 7
              /\ stem[Len(stem) - 6] = "_"
              /\ AllDigits(SubSeq(stem, Len(stem) - 5, Len(stem)))
              /\ ~Contains(SubSeq(stem, 1, Len(stem) - 7), "\n")
    IN  IF ok THEN Len(stem) - 7 ELSE 0

\* re.match(r"(.+)_\d{8}_\d{6}$", stem): the length of group(1), 0 for no match.
\* "." does not match a line break; "$" also matches before a final line break.
ReMatchStamp(stem) ==
    LET body == IF Len(stem) > 0 /\ stem[Len(stem)] = "\n"
                THEN {stem, DropLast(stem, 1)} ELSE {stem}
        Ok(s) ==
            /\ Len(s) > StampLen
            /\ LET t == SubSeq(s, Len(s) - StampLen + 1, Len(s))
               IN  /\ t[1] = "_"
                   /\ AllDigits(SubSeq(t, 2, 9))
                   /\ t[10] = "_"
                   /\ AllDigits(SubSeq(t, 11, 16))
            /\ ~Contains(SubSeq(s, 1, Len(s) - StampLen), "\n")
        hits == {s \in body : Ok(s)}
    IN  IF hits = {} THEN 0
        ELSE Len(CHOOSE s \in hits : TRUE) - StampLen

InferTableNameFromFile(filename) ==
    LET name0 == PathName(filename)
        name  == IF EndsWith(name0, GZ) THEN DropLast(name0, Len(GZ)) ELSE name0
        stem  == PathStem(name)
        m     == ReMatchStamp(stem)
    IN  IF m > 0 THEN SubSeq(stem, 1, m) ELSE stem

(***************************************************************************)
(* parse_table_name, normalize_table_identifiers                           *)
(***************************************************************************)
Whitespace == {" ", "\t", "\n", "\r"}

SetMin(S) == CHOOSE x \in S : \A y \in S : x <= y
SetMax(S) == CHOOSE x \in S : \A y \in S : y <= x

\* str.strip(chars): drop the leading and trailing characters that are in C
Strip(s, C) ==
    LET keep == {i \in 1..Len(s) : s[i] \notin C}
    IN  IF keep = {} THEN <<>> ELSE SubSeq(s, SetMin(keep), SetMax(keep))

DBO == <<"d", "b", "o">>
STAGING == <<"_", "S", "T", "A", "G", "I", "N", "G">>

\* as ParseTableName, splitting at the last "." (rsplit)
ParseTableNameLastDot(raw_table) ==
    LET cleaned == Strip(Strip(raw_table, Whitespace), {"[", "]"})
        i == RFind(cleaned, ".")
    IN  IF i > 0
        THEN <<SubSeq(cleaned, 1, i - 1), SubSeq(cleaned, i + 1, Len(cleaned))>>
        ELSE <<DBO, cleaned>>

\* returns <<schema, table>>
ParseTableName(raw_table) ==
    LET cleaned == Strip(Strip(raw_table, Whitespace), {"[", "]"})
        i == Find(cleaned, ".")
    IN  IF i > 0
        THEN <<SubSeq(cleaned, 1, i - 1), SubSeq(cleaned, i + 1, Len(cleaned))>>
        ELSE <<DBO, cleaned>>

\* as NormalizeTableIdentifiers, with the whole cleaned text between one pair
\* of brackets
NormalizeTableIdentifiersOnePair(raw_table) ==
    LET st == ParseTableName(raw_table)
    IN  << <<"[">> \o st[1] \o <<".">> \o st[2] \o <<"]">>,
           st[1] \o <<".">> \o st[2] >>

\* returns <<bracketed, bcp_name>>
NormalizeTableIdentifiers(raw_table) ==
    LET st == ParseTableName(raw_table)
    IN  << <<"[">> \o st[1] \o <<"]", ".", "[">> \o st[2] \o <<"]">>,
           st[1] \o <<".">> \o st[2] >>

\* as StagingRawTable, for f"{table}_STAGING": the schema is left out
StagingRawTableNoSchema(raw_table) ==
    LET st == ParseTableName(raw_table)
    IN  st[2] \o STAGING

\* staging_raw_table = f"{schema}.{table}_STAGING"
StagingRawTable(raw_table) ==
    LET st == ParseTableName(raw_table)
    IN  st[1] \o <<".">> \o st[2] \o STAGING

\* the names main() derives from the name of the file to load
TableNames(file_name) ==
    LET raw_table == InferTableNameFromFile(file_name)
        staging == NormalizeTableIdentifiers(StagingRawTable(raw_table))
    IN  [raw_table |-> raw_table,
         table_for_sql |-> staging[1],
         table_for_bcp |-> staging[2],
         base_table_for_sql |-> NormalizeTableIdentifiers(raw_table)[1]]

(***************************************************************************)
(* int(text) of Python: ok is FALSE for ValueError                          *)
(***************************************************************************)
DigitValue(c) ==
    CASE c = "0" -> 0 [] c = "1" -> 1 [] c = "2" -> 2 [] c = "3" -> 3
      [] c = "4" -> 4 [] c = "5" -> 5 [] c = "6" -> 6 [] c = "7" -> 7
      [] c = "8" -> 8 [] c = "9" -> 9

RECURSIVE DecimalValue(_)
DecimalValue(ds) ==
    IF ds = <<>> THEN 0
    ELSE LET c == ds[Len(ds)]
             rest == DropLast(ds, 1)
         IN  IF c = "_" THEN DecimalValue(rest)
             ELSE 10 * DecimalValue(rest) + DigitValue(c)

PyInt(text) ==
    LET t == Strip(text, Whitespace)
        signed == Len(t) > 0 /\ t[1] \in {"+", "-"}
        ds == IF signed THEN SubSeq(t, 2, Len(t)) ELSE t
        wellFormed ==
            /\ Len(ds) > 0
            /\ \A i \in 1..Len(ds) : ds[i] \in Digits \cup {"_"}
            /\ ds[1] # "_" /\ ds[Len(ds)] # "_"
            /\ \A i \in 1..(Len(ds) - 1) : ~(ds[i] = "_" /\ ds[i+1] = "_")
    IN  IF ~wellFormed THEN [ok |-> FALSE, val |-> 0]
        ELSE IF signed /\ t[1] = "-" THEN [ok |-> TRUE, val |-> 0 - DecimalValue(ds)]
        ELSE [ok |-> TRUE, val |-> DecimalValue(ds)]

(***************************************************************************)
(* str.upper() on the letters the model uses                               *)
(***************************************************************************)
LowerLetters == <<"a", "b", "c", "d", "e", "f", "g", "h", "i", "j", "k", "l", "m",
                  "n", "o", "p", "q", "r", "s", "t", "u", "v", "w", "x", "y", "z">>
UpperLetters == <<"A", "B", "C", "D", "E", "F", "G", "H", "I", "J", "K", "L", "M",
                  "N", "O", "P", "Q", "R", "S", "T", "U", "V", "W", "X", "Y", "Z">>

UpperChar(c) ==
    IF \E i \in 1..26 : LowerLetters[i] = c
    THEN UpperLetters[CHOOSE i \in 1..26 : LowerLetters[i] = c]
    ELSE c

LowerChar(c) ==
    IF \E i \in 1..26 : UpperLetters[i] = c
    THEN LowerLetters[CHOOSE i \in 1..26 : UpperLetters[i] = c]
    ELSE c

Upper(s) == [i \in 1..Len(s) |-> UpperChar(s[i])]
Lower(s) == [i \in 1..Len(s) |-> LowerChar(s[i])]

(***************************************************************************)
(* str(n) of Python for an integer                                         *)
(***************************************************************************)

RECURSIVE NatToText(_)
NatToText(n) ==
    LET digit(d) == <<"0", "1", "2", "3", "4", "5", "6", "7", "8", "9">>[d + 1]
    IN  IF n < 10 THEN <<digit(n)>>
        ELSE NatToText(n \div 10) \o <<digit(n % 10)>>

Str(n) == IF n < 0 THEN <<"-">> \o NatToText(0 - n) ELSE NatToText(n)

(***************************************************************************)
(* str_to_bool                                                             *)
(***************************************************************************)
TruthyWords == {<<"1">>, <<"t", "r", "u", "e">>, <<"t">>, <<"y", "e", "s">>, <<"y">>, <<"s", "i", "m">>}

\* the words of import_from_s3.py; import_local.py has no "n\u00e3o"
FalsyWords == {<<"0">>, <<"f", "a", "l", "s", "e">>, <<"f">>, <<"n", "o">>, <<"n">>, <<"n", "a", "o">>, <<"n", "ã", "o">>}

StrToBool(value, default) ==
    IF value = None THEN default
    ELSE LET lower == Lower(Strip(value, Whitespace))
         IN  IF lower \in TruthyWords THEN TRUE
             ELSE IF lower \in FalsyWords THEN FALSE
             ELSE default

(***************************************************************************)
(* Environment (os.getenv) and the configuration checks of the drivers     *)
(***************************************************************************)
VSet == <<"v">>

Truthy(v) == v # None /\ v # <<>>

StageDb == {"STAGE_DB_SERVER", "STAGE_DB_DATABASE", "STAGE_DB_USERNAME", "STAGE_DB_PASSWORD"}
DestDb  == {"DEST_DB_SERVER", "DEST_DB_DATABASE", "DEST_DB_USERNAME", "DEST_DB_PASSWORD"}
SourceDb == {"DB_SERVER", "DB_DATABASE", "DB_USERNAME", "DB_PASSWORD"}
S3Access == {"S3_ACCESS_KEY_ID", "S3_SECRET_ACCESS_KEY", "S3_REGION", "S3_BUCKET"}

\* the `required` list of each main()
Required(drv) ==
    CASE drv = "s3"     -> StageDb \cup S3Access
      [] drv = "local"  -> StageDb
      [] drv = "export" -> SourceDb \cup S3Access \cup {"S3_KEY"}
      [] drv = "merge"  -> StageDb \cup DestDb

\* as Missing, for the test `val is None`: an empty setting counts as given
MissingOnlyNone(drv, e) == {n \in Required(drv) : e[n] = None}

\* missing = [name for name, val in required if not val]
Missing(drv, e) == {n \in Required(drv) : ~Truthy(e[n])}

\* max_errors = int(max_errors_env) if max_errors_env is not None else 1;
\* ok is FALSE for the RuntimeError raised for a negative or malformed value
DefaultMaxErrors == 1

\* as ParseMaxErrors, without the test `max_errors < 0`
ParseMaxErrorsNoSignCheck(max_errors_env) ==
    IF max_errors_env = None THEN [ok |-> TRUE, val |-> DefaultMaxErrors]
    ELSE PyInt(max_errors_env)

ParseMaxErrors(max_errors_env) ==
    IF max_errors_env = None THEN [ok |-> TRUE, val |-> DefaultMaxErrors]
    ELSE LET v == PyInt(max_errors_env)
         IN  IF ~v.ok THEN [ok |-> FALSE, val |-> 0]
             ELSE IF v.val < 0 THEN [ok |-> FALSE, val |-> v.val]
             ELSE v

\* os.getenv("S3_KEY", "")
S3Prefix(e) == IF e["S3_KEY"] = None THEN <<>> ELSE e["S3_KEY"]

(***************************************************************************)
(* The staging database and the statements sent to it                      *)
(***************************************************************************)
Exists(d, name) == name \in DOMAIN d

\* as EnsureStagingStatement, for a statement that recreates the staging table
\* from the base table whenever the base table exists
EnsureStagingStatementClobber(drv, d, base, staging) ==
    IF ~Exists(d, base)
    THEN [db |-> d, error |-> drv = "s3" \/ ~Exists(d, staging)]
    ELSE [db |-> [n \in DOMAIN d \cup {staging} |->
                    IF n = staging THEN [cols |-> d[base].cols, rows |-> 0]
                    ELSE d[n]],
          error |-> FALSE]

\* The statement of ensure_staging_table as the server evaluates it.
\* "s3": IF OBJECT_ID(base) IS NULL THROW ...; IF OBJECT_ID(staging) IS NULL
\*       CREATE TABLE staging (<columns of base>).
\* "local": IF OBJECT_ID(staging) IS NULL SELECT TOP 0 * INTO staging FROM base.
\* Returns the database afterwards and whether the server raised an error.
EnsureStagingStatement(drv, d, base, staging) ==
    IF drv = "s3" /\ ~Exists(d, base)
    THEN [db |-> d, error |-> TRUE]
    ELSE IF Exists(d, staging)
    THEN [db |-> d, error |-> FALSE]
    ELSE IF ~Exists(d, base)
    THEN [db |-> d, error |-> TRUE]
    ELSE [db |-> [n \in DOMAIN d \cup {staging} |->
                    IF n = staging THEN [cols |-> d[base].cols, rows |-> 0]
                    ELSE d[n]],
          error |-> FALSE]

\* TRUNCATE TABLE <table>
TruncateStatement(d, table) ==
    IF ~Exists(d, table)
    THEN [db |-> d, error |-> TRUE]
    ELSE [db |-> [d EXCEPT ![table].rows = 0], error |-> FALSE]

(***************************************************************************)
(* confirm_truncate                                                        *)
(***************************************************************************)
SIM == <<"S", "I", "M">>

\* input() raises EOFError on a closed stdin: the answer is then None
EOF == None

\* as ConfirmTruncate, without .upper()
ConfirmTruncateCaseSensitive(typed) ==
    /\ typed # EOF
    /\ Strip(typed, Whitespace) = SIM

\* TRUE when confirm_truncate returns, FALSE when it raises
ConfirmTruncate(typed) ==
    /\ typed # EOF
    /\ Upper(Strip(typed, Whitespace)) = SIM

(***************************************************************************)
(* run_bcp_import: the outcome, given the result of the bcp process and    *)
(* the error file bcp left on disk                                         *)
(***************************************************************************)
SampleLines == 5

\* open() raised OSError
Unreadable == <<"OSError">>

\* f.readline() at position pos (1-based): up to and including the next "\n"
ReadLine(content, pos) ==
    LET rest == SubSeq(content, pos, Len(content))
        i == Find(rest, "\n")
    IN  IF i > 0 THEN SubSeq(rest, 1, i) ELSE rest

\* for _ in range(k): line = f.readline(); if not line: break; lines.append(line)
RECURSIVE ReadLines(_, _, _)
ReadLines(content, pos, k) ==
    IF k = 0 THEN [lines |-> <<>>, readlines |-> 0]
    ELSE LET line == ReadLine(content, pos)
         IN  IF line = <<>> THEN [lines |-> <<>>, readlines |-> 1]
             ELSE LET r == ReadLines(content, pos + Len(line), k - 1)
                  IN  [lines |-> <<line>> \o r.lines, readlines |-> 1 + r.readlines]

\* "".join(lines)
RECURSIVE Join(_)
Join(lines) == IF lines = <<>> THEN <<>> ELSE Head(lines) \o Join(Tail(lines))

\* as RunBcpImport, for a loop `for _ in range(6)`
RunBcpImportSixLines(error_file, res, err_content) ==
    IF res.returncode = 0
    THEN [raised |-> FALSE, returncode |-> 0, stdout |-> <<>>, stderr |-> <<>>,
          sample_file |-> <<>>, example_rows |-> <<>>, opened |-> FALSE, readlines |-> 0]
    ELSE IF ~Truthy(error_file) \/ err_content = Unreadable
    THEN [raised |-> TRUE, returncode |-> res.returncode,
          stdout |-> res.stdout, stderr |-> res.stderr,
          sample_file |-> <<>>, example_rows |-> <<>>, opened |-> FALSE, readlines |-> 0]
    ELSE LET r == ReadLines(err_content, 1, SampleLines + 1)
         IN  [raised |-> TRUE, returncode |-> res.returncode,
              stdout |-> res.stdout, stderr |-> res.stderr,
              sample_file |-> IF r.lines # <<>> THEN error_file ELSE <<>>,
              example_rows |-> Join(r.lines),
              opened |-> TRUE, readlines |-> r.readlines]

\* res = [returncode, stdout, stderr]; err_content is the text of the error
\* file, or Unreadable.  raised: RuntimeError was raised; the other fields are
\* the parts of its message; opened/readlines count the accesses to the file.
RunBcpImport(error_file, res, err_content) ==
    IF res.returncode = 0
    THEN [raised |-> FALSE, returncode |-> 0, stdout |-> <<>>, stderr |-> <<>>,
          sample_file |-> <<>>, example_rows |-> <<>>, opened |-> FALSE, readlines |-> 0]
    ELSE IF ~Truthy(error_file)
    THEN [raised |-> TRUE, returncode |-> res.returncode,
          stdout |-> res.stdout, stderr |-> res.stderr,
          sample_file |-> <<>>, example_rows |-> <<>>, opened |-> FALSE, readlines |-> 0]
    ELSE IF err_content = Unreadable
    THEN [raised |-> TRUE, returncode |-> res.returncode,
          stdout |-> res.stdout, stderr |-> res.stderr,
          sample_file |-> <<>>, example_rows |-> <<>>, opened |-> FALSE, readlines |-> 0]
    ELSE LET r == ReadLines(err_content, 1, SampleLines)
         IN  [raised |-> TRUE, returncode |-> res.returncode,
              stdout |-> res.stdout, stderr |-> res.stderr,
              sample_file |-> IF r.lines # <<>> THEN error_file ELSE <<>>,
              example_rows |-> Join(r.lines),
              opened |-> TRUE, readlines |-> r.readlines]

(***************************************************************************)
(* run_bcp_import: the command line                                        *)
(***************************************************************************)
Flag(letter) == <<"-", letter>>

\* as BcpImportCommand, with -E appended whatever keep_identity is
BcpImportCommandAlwaysE(bcp_path, table_for_bcp, server, database, username, password, file_path, field_terminator, keep_identity, max_errors_arg, error_file) ==
    <<bcp_path, table_for_bcp, <<"i", "n">>, file_path, Flag("S"), server, Flag("d"), database,
      Flag("U"), username, Flag("P"), password, Flag("c"), Flag("t"), field_terminator>>
    \o <<Flag("E")>>
    \o (IF max_errors_arg # Unset THEN <<Flag("m"), Str(max_errors_arg)>> ELSE <<>>)
    \o (IF Truthy(error_file) THEN <<Flag("e"), error_file>> ELSE <<>>)

\* cmd as it is when subprocess.run is called; max_errors_arg is an integer or None
BcpImportCommand(bcp_path, table_for_bcp, server, database, username, password, file_path, field_terminator, keep_identity, max_errors_arg, error_file) ==
    <<bcp_path, table_for_bcp, <<"i", "n">>, file_path, Flag("S"), server, Flag("d"), database,
      Flag("U"), username, Flag("P"), password, Flag("c"), Flag("t"), field_terminator>>
    \o (IF keep_identity THEN <<Flag("E")>> ELSE <<>>)
    \o (IF max_errors_arg # Unset THEN <<Flag("m"), Str(max_errors_arg)>> ELSE <<>>)
    \o (IF Truthy(error_file) THEN <<Flag("e"), error_file>> ELSE <<>>)

(***************************************************************************)
(* resolve_object_key, resolve_local_bcp, maybe_decompress_gzip            *)
(***************************************************************************)
RECURSIVE Flatten(_)
Flatten(pages) == IF pages = <<>> THEN <<>> ELSE Head(pages) \o Flatten(Tail(pages))

IsBcpKey(key) ==
    LET key_lower == Lower(key)
    IN  EndsWith(key_lower, BCP) \/ EndsWith(key_lower, BCP \o GZ)

\* the two nested loops over the pages; acc = [key, modified], modified 0 for None
RECURSIVE LatestObject(_, _)
LatestObject(objs, acc) ==
    IF objs = <<>> THEN acc
    ELSE LET obj == Head(objs)
         IN  IF ~IsBcpKey(obj.Key) THEN LatestObject(Tail(objs), acc)
             ELSE IF acc.modified = 0 \/ obj.LastModified > acc.modified
             THEN LatestObject(Tail(objs), [key |-> obj.Key, modified |-> obj.LastModified])
             ELSE LatestObject(Tail(objs), acc)

\* as ResolveObjectKey, returning the first listed key that matches
ResolveObjectKeyFirstMatch(explicit_key, pages) ==
    IF Truthy(explicit_key) THEN explicit_key
    ELSE LET matches == SelectSeq(Flatten(pages), LAMBDA obj : IsBcpKey(obj.Key))
         IN  IF matches = <<>> THEN None ELSE matches[1].Key

\* None stands for the RuntimeError "Nenhum arquivo .bcp encontrado"
ResolveObjectKey(explicit_key, pages) ==
    IF Truthy(explicit_key) THEN explicit_key
    ELSE LET latest == LatestObject(Flatten(pages), [key |-> None, modified |-> 0])
         IN  IF ~Truthy(latest.key) THEN None ELSE latest.key

\* max(candidates, key=mtime): the first entry with the greatest mtime
FirstMax(cands) ==
    LET i == CHOOSE i \in 1..Len(cands) :
                 /\ \A j \in 1..Len(cands) : cands[j].mtime <= cands[i].mtime
                 /\ \A j \in 1..(i - 1) : cands[j].mtime < cands[i].mtime
    IN  cands[i]

\* dir = [is_dir, files]; files is the directory listing, entries [name, mtime].
\* None stands for the RuntimeError raised.
ResolveLocalBcp(explicit_file, dir) ==
    IF Truthy(explicit_file)
    THEN IF \E i \in 1..Len(dir.files) : dir.files[i].name = explicit_file
         THEN explicit_file ELSE None
    ELSE IF ~dir.is_dir THEN None
    ELSE LET candidates ==
                 SelectSeq(dir.files, LAMBDA f : EndsWith(f.name, BCP))
                 \o SelectSeq(dir.files, LAMBDA f : EndsWith(f.name, BCP \o GZ))
         IN  IF candidates = <<>> THEN None ELSE FirstMax(candidates).name

\* Path(name).suffix
PathSuffix(name) ==
    LET n == PathName(name)
        i == RFind(n, ".") - 1
    IN  IF 0 < i /\ i < Len(n) - 1 THEN SubSeq(n, i + 1, Len(n)) ELSE <<>>

\* the path returned by maybe_decompress_gzip
DecompressTarget(path) ==
    IF PathSuffix(path) # GZ THEN path
    ELSE DropLast(path, Len(PathSuffix(path)))

(***************************************************************************)
(* gzip: the files, compress_gzip and maybe_decompress_gzip                *)
(***************************************************************************)
\* a gzip member: the magic bytes, the deflated body (here runs: count, byte),
\* then the checksum and the size of the payload
GzipMagic == <<31, 139>>

RECURSIVE Checksum(_)
Checksum(payload) ==
    IF payload = <<>> THEN 0 ELSE (Head(payload) + 1 + 3 * Checksum(Tail(payload))) % 251

RECURSIVE Deflate(_)
Deflate(payload) ==
    IF payload = <<>> THEN <<>>
    ELSE LET run == CHOOSE n \in 1..Len(payload) :
                        /\ \A i \in 1..n : payload[i] = payload[1]
                        /\ n < Len(payload) => payload[n + 1] # payload[1]
         IN  <<run, Head(payload)>> \o Deflate(SubSeq(payload, run + 1, Len(payload)))

RECURSIVE Inflate(_)
Inflate(body) ==
    IF Len(body) < 2 THEN <<>>
    ELSE [i \in 1..body[1] |-> body[2]] \o Inflate(SubSeq(body, 3, Len(body)))

\* gzip.open(path, "wb") and the writes to it
Gzip(payload) == GzipMagic \o Deflate(payload) \o <<Checksum(payload), Len(payload) % 256>>

\* gzip.open(path, "rb") read to the end; ok is FALSE for BadGzipFile or EOFError
Gunzip(data) ==
    IF Len(data) < 4 \/ SubSeq(data, 1, 2) # GzipMagic
    THEN [ok |-> FALSE, payload |-> <<>>]
    ELSE LET body == SubSeq(data, 3, Len(data) - 2)
             payload == Inflate(body)
         IN  IF /\ Len(body) % 2 = 0
                /\ \A i \in 1..Len(body) : i % 2 = 1 => body[i] >= 1
                /\ data[Len(data) - 1] = Checksum(payload)
                /\ data[Len(data)] = Len(payload) % 256
             THEN [ok |-> TRUE, payload |-> payload]
             ELSE [ok |-> FALSE, payload |-> <<>>]

\* the files of a directory are a function path -> bytes, <<>> when there are none;
\* open(path, "wb"), the writes and the close
WriteFile(files, path, bytes) ==
    [q \in DOMAIN files \cup {path} |-> IF q = path THEN bytes ELSE files[q]]

\* main.compress_gzip: [path, files]
CompressGzip(source_path, files) ==
    LET gz_path == source_path \o GZ
    IN  [path |-> gz_path, files |-> WriteFile(files, gz_path, Gzip(files[source_path]))]

\* import_from_s3.maybe_decompress_gzip: [path, files, raised]; path is None
\* when the function raises, and the target is left as open(target, "wb")
\* made it. The targets "." and ".." are directories (Path(".").name is empty).
MaybeDecompressGzip(path, files) ==
    IF PathSuffix(path) # GZ THEN [path |-> path, files |-> files, raised |-> ""]
    ELSE LET target == DecompressTarget(path)
             src == Gunzip(files[path])
         IN  IF PathName(target) \in {<<>>, <<".", ".">>}
             THEN [path |-> None, files |-> files, raised |-> "IsADirectoryError"]
             ELSE IF ~src.ok
             THEN [path |-> None, files |-> WriteFile(files, target, <<>>),
                   raised |-> "BadGzipFile"]
             ELSE [path |-> target, files |-> WriteFile(files, target, src.payload),
                   raised |-> ""]

\* import_local.maybe_decompress_gzip
MaybeDecompressGzipLocal(path, files) ==
    IF PathSuffix(path) # GZ THEN [path |-> path, files |-> files, raised |-> ""]
    ELSE LET target == DecompressTarget(path)
             src == Gunzip(files[path])
         IN  IF PathName(target) \in {<<>>, <<".", ".">>}
             THEN [path |-> None, files |-> files, raised |-> "IsADirectoryError"]
             ELSE IF ~src.ok
             THEN [path |-> None, files |-> WriteFile(files, target, <<>>),
                   raised |-> "BadGzipFile"]
             ELSE [path |-> target, files |-> WriteFile(files, target, src.payload),
                   raised |-> ""]

(***************************************************************************)
(* What the outside can hold or answer                                     *)
(***************************************************************************)
Stamp == <<"_", "2", "0", "2", "4", "0", "1", "1", "5", "_", "0", "9", "3", "0", "0", "0">>

FileGzStamped == <<"d", "b", "o", ".", "T">> \o Stamp \o BCP \o GZ
FileStamped   == <<"T">> \o Stamp \o BCP
FilePlain     == <<"s", ".", "U">> \o BCP
FileUpperGz   == <<"T">> \o Stamp \o <<".", "B", "C", "P", ".", "G", "Z">>
FileOnlyGz    == GZ
FileOther     == <<"r", ".", "t", "x", "t">>
FileSchemaGz  == <<"s", ".", "U", "1">> \o Stamp \o BCP \o GZ

FileNames == {FileGzStamped, FileStamped, FilePlain, FileUpperGz, FileOnlyGz, FileSchemaGz}

\* the tables the database may hold
BaseT    == NormalizeTableIdentifiers(<<"T">>)[1]
StagingT == NormalizeTableIdentifiers(StagingRawTable(<<"T">>))[1]

ColSets == {<<"int">>, <<"int", "varchar(10)">>}

MkDb(b, st) ==
    [n \in (IF b # <<>> THEN {BaseT} ELSE {}) \cup (IF st # <<>> THEN {StagingT} ELSE {})
        |-> IF n = BaseT THEN b[1] ELSE st[1]]

DBs ==
    {MkDb(b, st) :
        b \in {<<>>, << [cols |-> <<"int">>, rows |-> 0] >>},
        st \in {<<>>} \cup {<< [cols |-> c, rows |-> r] >> : c \in ColSets, r \in 0..MaxRows}}

Times == {1, 2}

Objects == [Key : {FileGzStamped, FileUpperGz, FilePlain, FileOther}, LastModified : Times]

\* a listing: up to MaxObjects objects, delivered in one or two pages
Listings ==
    UNION {{<<SubSeq(objs, 1, k), SubSeq(objs, k + 1, Len(objs))>> : k \in 0..Len(objs)} :
              objs \in SeqsUpTo(Objects, MaxObjects)}

DirEntries == [name : {FileGzStamped, FileStamped, FilePlain, FileOther}, mtime : Times]

Dirs ==
    {[is_dir |-> FALSE, files |-> <<>>]}
    \cup {[is_dir |-> TRUE, files |-> fs] : fs \in SeqsUpTo(DirEntries, MaxObjects)}

MaxErrorsTexts == SeqsUpTo({"-", "0", "1", "x"}, MaxEnvLen)

Pads(n) == [k \in 1..n |-> " "]

Answers ==
    {Pads(i) \o core \o Pads(j) :
        i \in 0..MaxPad, j \in 0..MaxPad,
        core \in {SIM, <<"s", "i", "m">>, <<"S", "i", "m">>, <<"S", "I">>,
                  <<"S", "I", "M", "M">>, <<"S", " ", "I", "M">>,
                  <<"N", "A", "O">>, <<>>}}

ServerError == <<"M", "s", "g">>
ConnError   == <<"N", "e", "t">>

ProcOk     == [returncode |-> 0, stdout |-> <<"o">>, stderr |-> <<>>]
ProcFault  == [returncode |-> 1, stdout |-> <<>>, stderr |-> ConnError]
ProcServer == [returncode |-> 1, stdout |-> <<>>, stderr |-> ServerError]
ProcQuiet  == [returncode |-> 0, stdout |-> ServerError, stderr |-> <<>>]

\* What subprocess.run returns once the server has evaluated the statement.
\* The runner is started with -Q and without -b: whether it turns a server
\* error into a non-zero exit code is its own matter, so both are possible.
RunnerResults(error) == IF error THEN {ProcServer, ProcQuiet} ELSE {ProcOk}

ErrPath == <<"e", "r", "r">>

(***************************************************************************)
(* Initial states                                                          *)
(***************************************************************************)
Optional(drv) ==
    CASE drv = "s3"    -> {"S3_KEY", "S3_OBJECT_KEY", "BCP_MAX_ERRORS"}
      [] drv = "local" -> {"LOCAL_IMPORT_FILE", "BCP_MAX_ERRORS"}
      [] OTHER         -> {}

EnvDomain(drv) == Required(drv) \cup Optional(drv)

\* a complete configuration
BaseEnv(drv) ==
    [n \in EnvDomain(drv) |->
        IF n \in {"S3_OBJECT_KEY", "LOCAL_IMPORT_FILE", "BCP_MAX_ERRORS"} THEN None
        ELSE VSet]

Values(n) ==
    CASE n = "BCP_MAX_ERRORS" -> {None} \cup MaxErrorsTexts
      [] n \in {"S3_OBJECT_KEY", "LOCAL_IMPORT_FILE"} -> {None, <<>>} \cup FileNames
      [] OTHER -> {None, <<>>, VSet}

RECURSIVE EnvsWithin(_, _)
EnvsWithin(drv, k) ==
    IF k = 0 THEN {BaseEnv(drv)}
    ELSE LET prev == EnvsWithin(drv, k - 1)
         IN  prev \cup UNION {{[e EXCEPT ![n] = v] : e \in prev, v \in Values(n)} :
                                  n \in EnvDomain(drv)}

Envs(drv) == EnvsWithin(drv, MaxDeviations)

NoTables == [raw_table |-> None, table_for_sql |-> None,
             table_for_bcp |-> None, base_table_for_sql |-> None]

NoLoad == [raised |-> FALSE, returncode |-> 0, stdout |-> <<>>, stderr |-> <<>>,
           sample_file |-> <<>>, example_rows |-> <<>>, opened |-> FALSE, readlines |-> 0]

\* the variables a run does not use
IdleImport ==
    /\ max_errors = Unset /\ db = MkDb(<<>>, <<>>) /\ object_key = None
    /\ local_file = None /\ tables = NoTables /\ answer = None /\ load = NoLoad

IdleBatch == scripts = <<>> /\ idx = 0 /\ failures = <<>>

IdleFn == fn_arg = <<>> /\ fn_ret = <<>>

InitImport ==
    /\ driver \in {"s3", "local"}
    /\ pc = "config"
    /\ env \in Envs(driver)
    /\ db \in DBs
    /\ max_errors = Unset
    /\ object_key = None /\ local_file = None /\ tables = NoTables
    /\ answer = None /\ proc = ProcOk /\ load = NoLoad /\ raised = ""
    /\ calls = <<>> /\ started = <<>> /\ exit_status = 0
    /\ IdleBatch /\ IdleFn

(***************************************************************************)
(* Import drivers: one action per stage of main()                          *)
(***************************************************************************)
\* an external invocation and the exit code (or 1 for the error) it ended with
Call(tool, op, arg, rc) == [tool |-> tool, op |-> op, arg |-> arg, rc |-> rc]

\* the run ends with exit status 1: an uncaught RuntimeError before the try
\* block, or logging.error + sys.exit(1) in the except clause
Exit1(kind) ==
    /\ pc' = "done"
    /\ exit_status' = 1
    /\ raised' = kind

ImportConfigure ==
    /\ driver \in {"s3", "local"} /\ pc = "config"
    /\ LET me == ParseMaxErrors(env["BCP_MAX_ERRORS"])
       IN  IF ~me.ok
           THEN Exit1("config") /\ UNCHANGED <<max_errors, calls>>
           ELSE /\ max_errors' = me.val
                /\ IF Missing(driver, env) # {}
                   THEN Exit1("config") /\ UNCHANGED calls
                   ELSE IF driver = "s3" /\ ~Truthy(env["S3_OBJECT_KEY"])
                                         /\ ~Truthy(S3Prefix(env))
                   THEN Exit1("config") /\ UNCHANGED calls
                   ELSE IF driver = "s3"
                   THEN \/ /\ calls' = Append(calls, Call("s3", "client", <<>>, 0))
                           /\ pc' = "resolve"
                           /\ UNCHANGED <<exit_status, raised>>
                        \/ /\ calls' = Append(calls, Call("s3", "client", <<>>, 1))
                           /\ Exit1("client")
                   ELSE pc' = "resolve" /\ UNCHANGED <<calls, exit_status, raised>>
    /\ UNCHANGED <<driver, env, db, object_key, local_file, tables, answer, proc,
                   load, started, scripts, idx, failures, fn_arg, fn_ret>>

Resolve ==
    /\ driver \in {"s3", "local"} /\ pc = "resolve"
    /\ started' = Append(started, "resolve")
    /\ IF driver = "s3"
       THEN /\ UNCHANGED local_file
            /\ IF Truthy(env["S3_OBJECT_KEY"])
               THEN /\ object_key' = ResolveObjectKey(env["S3_OBJECT_KEY"], <<>>)
                    /\ pc' = "download"
                    /\ UNCHANGED <<calls, exit_status, raised>>
               ELSE \/ /\ calls' = Append(calls, Call("s3", "list", S3Prefix(env), 1))
                       /\ Exit1("resolve") /\ UNCHANGED object_key
                    \/ /\ calls' = Append(calls, Call("s3", "list", S3Prefix(env), 0))
                       /\ \E pages \in Listings :
                            LET key == ResolveObjectKey(env["S3_OBJECT_KEY"], pages)
                            IN  IF key = None
                                THEN Exit1("resolve") /\ UNCHANGED object_key
                                ELSE /\ object_key' = key
                                     /\ pc' = "download"
                                     /\ UNCHANGED <<exit_status, raised>>
       ELSE /\ UNCHANGED <<object_key, calls>>
            /\ \E dir \in Dirs :
                 LET file == ResolveLocalBcp(env["LOCAL_IMPORT_FILE"], dir)
                 IN  IF file = None
                     THEN Exit1("resolve") /\ UNCHANGED local_file
                     ELSE /\ local_file' = file
                          /\ pc' = "decompress"
                          /\ UNCHANGED <<exit_status, raised>>
    /\ UNCHANGED <<driver, env, max_errors, db, tables, answer, proc, load,
                   scripts, idx, failures, fn_arg, fn_ret>>

Download ==
    /\ driver = "s3" /\ pc = "download"
    /\ \/ /\ calls' = Append(calls, Call("s3", "download", object_key, 1))
          /\ Exit1("download") /\ UNCHANGED local_file
       \/ /\ calls' = Append(calls, Call("s3", "download", object_key, 0))
          /\ local_file' = PathName(object_key)
          /\ pc' = "decompress"
          /\ UNCHANGED <<exit_status, raised>>
    /\ UNCHANGED <<driver, env, max_errors, db, object_key, tables, answer, proc,
                   load, started, scripts, idx, failures, fn_arg, fn_ret>>

Decompress ==
    /\ driver \in {"s3", "local"} /\ pc = "decompress"
    /\ IF PathSuffix(local_file) # GZ
       THEN /\ local_file' = DecompressTarget(local_file)
            /\ pc' = "normalize"
            /\ UNCHANGED <<exit_status, raised>>
       ELSE \/ Exit1("decompress") /\ UNCHANGED local_file
            \/ /\ local_file' = DecompressTarget(local_file)
               /\ pc' = "normalize"
               /\ UNCHANGED <<exit_status, raised>>
    /\ UNCHANGED <<driver, env, max_errors, db, object_key, tables, answer, proc,
                   load, calls, started, scripts, idx, failures, fn_arg, fn_ret>>

Normalize ==
    /\ driver \in {"s3", "local"} /\ pc = "normalize"
    /\ started' = Append(started, "normalize")
    /\ tables' = TableNames(local_file)
    /\ pc' = "ensure"
    /\ UNCHANGED <<driver, env, max_errors, db, object_key, local_file, answer, proc,
                   load, raised, calls, scripts, idx, failures, exit_status,
                   fn_arg, fn_ret>>

\* as EnsureStaging, without the test of result.returncode
EnsureStagingContinues ==
    /\ driver \in {"s3", "local"} /\ pc = "ensure"
    /\ started' = Append(started, "ensure")
    /\ \/ proc' = ProcFault /\ UNCHANGED db
       \/ LET r == EnsureStagingStatement(driver, db, tables.base_table_for_sql,
                                          tables.table_for_sql)
          IN  /\ db' = r.db
              /\ proc' \in RunnerResults(r.error)
    /\ pc' = "confirm"
    /\ calls' = Append(calls, Call("sqlcmd", "ensure", tables.table_for_sql,
                                   proc'.returncode))
    /\ UNCHANGED <<driver, env, max_errors, object_key, local_file, tables, answer,
                   load, raised, exit_status, scripts, idx, failures, fn_arg, fn_ret>>

\* The SQL runner either fails before the statement reaches the server
\* (ProcFault) or the server evaluates the statement; the call raises when
\* result.returncode is not 0.
EnsureStaging ==
    /\ driver \in {"s3", "local"} /\ pc = "ensure"
    /\ started' = Append(started, "ensure")
    /\ \/ proc' = ProcFault /\ UNCHANGED db
       \/ LET r == EnsureStagingStatement(driver, db, tables.base_table_for_sql,
                                          tables.table_for_sql)
          IN  /\ db' = r.db
              /\ proc' \in RunnerResults(r.error)
    /\ IF proc'.returncode # 0
       THEN Exit1("ensure")
       ELSE pc' = "confirm" /\ UNCHANGED <<exit_status, raised>>
    /\ calls' = Append(calls, Call("sqlcmd", "ensure", tables.table_for_sql,
                                   proc'.returncode))
    /\ UNCHANGED <<driver, env, max_errors, object_key, local_file, tables, answer,
                   load, scripts, idx, failures, fn_arg, fn_ret>>

Confirm ==
    /\ driver \in {"s3", "local"} /\ pc = "confirm"
    /\ started' = Append(started, "confirm")
    /\ \E typed \in Answers \cup {EOF} :
         /\ answer' = typed
         /\ IF ConfirmTruncate(typed)
            THEN pc' = "truncate" /\ UNCHANGED <<exit_status, raised>>
            ELSE IF typed = EOF THEN Exit1("EOFError")
            ELSE Exit1("cancel")
    /\ UNCHANGED <<driver, env, max_errors, db, object_key, local_file, tables, proc,
                   load, calls, scripts, idx, failures, fn_arg, fn_ret>>

\* as Truncate, with the statement sent again after a failure of the runner
TruncateRetries ==
    /\ driver \in {"s3", "local"} /\ pc = "truncate"
    /\ started' = IF "truncate" \in {started[i] : i \in DOMAIN started}
                  THEN started ELSE Append(started, "truncate")
    /\ \/ proc' = ProcFault /\ UNCHANGED db
       \/ LET r == TruncateStatement(db, tables.table_for_sql)
          IN  /\ db' = r.db
              /\ proc' \in RunnerResults(r.error)
    /\ IF proc'.returncode = 0
       THEN pc' = "load" /\ UNCHANGED <<exit_status, raised>>
       ELSE IF proc' = ProcFault /\ proc # ProcFault
       THEN UNCHANGED <<pc, exit_status, raised>>
       ELSE Exit1("truncate")
    /\ calls' = Append(calls, Call("sqlcmd", "truncate", tables.table_for_sql,
                                   proc'.returncode))
    /\ UNCHANGED <<driver, env, max_errors, object_key, local_file, tables, answer,
                   load, scripts, idx, failures, fn_arg, fn_ret>>

Truncate ==
    /\ driver \in {"s3", "local"} /\ pc = "truncate"
    /\ started' = Append(started, "truncate")
    /\ \/ proc' = ProcFault /\ UNCHANGED db
       \/ LET r == TruncateStatement(db, tables.table_for_sql)
          IN  /\ db' = r.db
              /\ proc' \in RunnerResults(r.error)
    /\ IF proc'.returncode # 0
       THEN Exit1("truncate")
       ELSE pc' = "load" /\ UNCHANGED <<exit_status, raised>>
    /\ calls' = Append(calls, Call("sqlcmd", "truncate", tables.table_for_sql,
                                   proc'.returncode))
    /\ UNCHANGED <<driver, env, max_errors, object_key, local_file, tables, answer,
                   load, scripts, idx, failures, fn_arg, fn_ret>>

\* the error files bcp may leave behind in a run
RunErrFiles == {Unreadable, <<>>, <<"r", "\n">>}

\* bcp loads rows into the target table while it runs; it cannot succeed
\* without the table
BulkLoad ==
    /\ driver \in {"s3", "local"} /\ pc = "load"
    /\ started' = Append(started, "load")
    /\ \E res \in {ProcOk, ProcFault}, err_content \in RunErrFiles :
         /\ Exists(db, tables.table_for_sql) \/ res.returncode # 0
         /\ proc' = res
         /\ load' = RunBcpImport(ErrPath, res, err_content)
         /\ IF Exists(db, tables.table_for_sql)
            THEN \E n \in 0..MaxRows : db' = [db EXCEPT ![tables.table_for_sql].rows = n]
            ELSE UNCHANGED db
         /\ IF load'.raised
            THEN Exit1("load")
            ELSE pc' = "done" /\ UNCHANGED <<exit_status, raised>>
    /\ calls' = Append(calls, Call("bcp", "import", tables.table_for_bcp,
                                   proc'.returncode))
    /\ UNCHANGED <<driver, env, max_errors, object_key, local_file, tables, answer,
                   scripts, idx, failures, fn_arg, fn_ret>>

(***************************************************************************)
(* Batch drivers: main.py (export) and merge.py (merge)                    *)
(***************************************************************************)
SQL == <<".", "s", "q", "l">>

\* the scripts a directory may hold, in sorted order
ScriptList ==
    << <<"a">> \o SQL,
       <<"a", "_", "d", "e", "s", "t">> \o SQL,
       <<"b", "o", "t", "h", "_", "a">> \o SQL,
       <<"s", "t", "a", "g", "e", "_", "a">> \o SQL,
       <<"s", "t", "a", "g", "e", "_", "x", "_", "d", "e", "s", "t">> \o SQL >>

ScriptNames == {ScriptList[i] : i \in 1..Len(ScriptList)}

\* what --scripts may name: scripts of the directory, one without extension,
\* one that does not exist
ScriptArgs ==
    ScriptNames \cup {<<"s", "t", "a", "g", "e", "_", "a">>, <<"z">> \o SQL}

\* sorted(Path(scripts_dir).glob("*.sql")) for a directory holding the scripts in I
SortedFiles(I) ==
    SelectSeq(ScriptList, LAMBDA n : n \in I)

\* os.path.basename
Basename(path) == SubSeq(path, RFind(path, "/") + 1, Len(path))

\* the names asked for with --scripts
Requested(args) ==
    {LET name == Basename(entry)
     IN  IF EndsWith(Lower(name), SQL) THEN name ELSE name \o SQL : entry \in args}

\* as DetermineTargets, testing the stage markers before the both markers
DetermineTargetsStageFirst(filename) ==
    LET name == Lower(filename)
    IN  IF StartsWith(name, <<"s", "t", "a", "g", "e", "_">>)
           \/ EndsWith(name, <<"_", "s", "t", "a", "g", "e">> \o SQL)
        THEN {"stage"}
        ELSE IF StartsWith(name, <<"b", "o", "t", "h", "_">>)
                \/ EndsWith(name, <<"_", "b", "o", "t", "h">> \o SQL)
        THEN {"stage", "dest"}
        ELSE IF StartsWith(name, <<"d", "e", "s", "t", "_">>)
                \/ EndsWith(name, <<"_", "d", "e", "s", "t">> \o SQL)
        THEN {"dest"}
        ELSE {}

\* determine_targets; {} stands for the RuntimeError raised
DetermineTargets(filename) ==
    LET name == Lower(filename)
    IN  IF StartsWith(name, <<"b", "o", "t", "h", "_">>)
           \/ EndsWith(name, <<"_", "b", "o", "t", "h">> \o SQL)
        THEN {"stage", "dest"}
        ELSE IF StartsWith(name, <<"s", "t", "a", "g", "e", "_">>)
                \/ EndsWith(name, <<"_", "s", "t", "a", "g", "e">> \o SQL)
        THEN {"stage"}
        ELSE IF StartsWith(name, <<"d", "e", "s", "t", "_">>)
                \/ EndsWith(name, <<"_", "d", "e", "s", "t">> \o SQL)
        THEN {"dest"}
        ELSE {}

\* load_query_from_file on a file that is "missing", "empty" or holds "sql":
\* "" when it returns, else the exception raised
LoadQueryFromFile(content) ==
    CASE content = "missing" -> "FileNotFoundError"
      [] content = "empty"   -> "ValueError"
      [] OTHER               -> ""

InitBatch ==
    /\ driver \in {"export", "merge"}
    /\ pc = "config"
    /\ env \in Envs(driver)
    /\ proc = ProcOk /\ raised = ""
    /\ calls = <<>> /\ started = <<>> /\ exit_status = 0
    /\ IdleImport /\ IdleBatch /\ IdleFn

\* main() up to the for loop
BatchConfigure ==
    /\ driver \in {"export", "merge"} /\ pc = "config"
    /\ IF Missing(driver, env) # {}
       THEN Exit1("config") /\ UNCHANGED scripts
       ELSE \E is_dir \in BOOLEAN, I \in SUBSET ScriptNames, args \in SUBSET ScriptArgs :
              /\ Cardinality(I) <= MaxScripts
              /\ Cardinality(args) <= MaxScripts
              /\ is_dir \/ I = {}
              /\ LET all_sql_files == SortedFiles(I)
                     requested == Requested(args)
                     selected == SelectSeq(all_sql_files, LAMBDA n : n \in requested)
                 IN  IF ~is_dir \/ all_sql_files = <<>>
                     THEN Exit1("resolve") /\ UNCHANGED scripts
                     ELSE IF args # {} /\ requested \ I # {}
                     THEN Exit1("resolve") /\ UNCHANGED scripts
                     ELSE /\ scripts' = IF args # {} THEN selected ELSE all_sql_files
                          /\ pc' = "loop"
                          /\ UNCHANGED <<exit_status, raised>>
    /\ UNCHANGED <<driver, env, max_errors, db, object_key, local_file, tables, answer,
                   proc, load, calls, started, idx, failures, fn_arg, fn_ret>>

Failure(name, err) == [name |-> name, err |-> err]

\* as MergeScript, without the try/except around the body of the loop
MergeScriptAborts ==
    /\ driver = "merge" /\ pc = "loop" /\ idx < Len(scripts)
    /\ idx' = idx + 1
    /\ LET name == scripts[idx + 1]
           targets == DetermineTargets(name)
           stage(rc) == Call("sqlcmd", "stage", name, rc)
           dest(rc) == Call("sqlcmd", "dest", name, rc)
       IN  \E content \in {"missing", "empty", "sql"}, rc_stage \in {0, 1}, rc_dest \in {0, 1} :
             IF LoadQueryFromFile(content) # ""
             THEN Exit1(LoadQueryFromFile(content)) /\ UNCHANGED <<calls, proc>>
             ELSE IF targets = {}
             THEN Exit1("RuntimeError") /\ UNCHANGED <<calls, proc>>
             ELSE IF "stage" \in targets /\ rc_stage # 0
             THEN /\ calls' = Append(calls, stage(rc_stage))
                  /\ proc' = ProcFault
                  /\ Exit1("sqlcmd")
             ELSE /\ calls' = calls \o (IF "stage" \in targets THEN <<stage(0)>> ELSE <<>>)
                                    \o (IF "dest" \in targets THEN <<dest(rc_dest)>> ELSE <<>>)
                  /\ IF "dest" \in targets /\ rc_dest # 0
                     THEN proc' = ProcFault /\ Exit1("sqlcmd")
                     ELSE proc' = ProcOk /\ UNCHANGED <<pc, exit_status, raised>>
    /\ UNCHANGED <<driver, env, max_errors, db, object_key, local_file, tables,
                   answer, load, started, scripts, failures, fn_arg, fn_ret>>

\* one iteration of the for loop of merge.py
MergeScript ==
    /\ driver = "merge" /\ pc = "loop" /\ idx < Len(scripts)
    /\ idx' = idx + 1
    /\ LET name == scripts[idx + 1]
           targets == DetermineTargets(name)
           stage(rc) == Call("sqlcmd", "stage", name, rc)
           dest(rc) == Call("sqlcmd", "dest", name, rc)
       IN  \E content \in {"missing", "empty", "sql"}, rc_stage \in {0, 1}, rc_dest \in {0, 1} :
             IF LoadQueryFromFile(content) # ""
             THEN /\ failures' = Append(failures, Failure(name, LoadQueryFromFile(content)))
                  /\ UNCHANGED <<calls, proc>>
             ELSE IF targets = {}
             THEN /\ failures' = Append(failures, Failure(name, "RuntimeError"))
                  /\ UNCHANGED <<calls, proc>>
             ELSE IF "stage" \in targets /\ rc_stage # 0
             THEN /\ calls' = Append(calls, stage(rc_stage))
                  /\ proc' = ProcFault
                  /\ failures' = Append(failures, Failure(name, "sqlcmd"))
             ELSE /\ calls' = calls \o (IF "stage" \in targets THEN <<stage(0)>> ELSE <<>>)
                                    \o (IF "dest" \in targets THEN <<dest(rc_dest)>> ELSE <<>>)
                  /\ IF "dest" \in targets /\ rc_dest # 0
                     THEN /\ proc' = ProcFault
                          /\ failures' = Append(failures, Failure(name, "sqlcmd"))
                     ELSE proc' = ProcOk /\ UNCHANGED failures
    /\ UNCHANGED <<driver, pc, env, max_errors, db, object_key, local_file, tables,
                   answer, load, raised, started, scripts, exit_status, fn_arg, fn_ret>>

\* one iteration of the for loop of main.py; the script a call belongs to is
\* recorded as its arg
ExportScript ==
    /\ driver = "export" /\ pc = "loop" /\ idx < Len(scripts)
    /\ idx' = idx + 1
    /\ LET name == scripts[idx + 1]
           export(c) == Call("bcp", "queryout", name, c)
           client == Call("s3", "client", name, 0)
           upload(c) == Call("s3", "upload", name, c)
       IN  \E content \in {"missing", "empty", "sql"}, rc \in {0, 1},
              gz_ok \in BOOLEAN, upload_ok \in BOOLEAN :
             IF LoadQueryFromFile(content) # ""
             THEN /\ failures' = Append(failures, Failure(name, LoadQueryFromFile(content)))
                  /\ UNCHANGED <<calls, proc>>
             ELSE IF rc # 0
             THEN /\ calls' = Append(calls, export(rc))
                  /\ proc' = ProcFault
                  /\ failures' = Append(failures, Failure(name, "bcp"))
             ELSE IF ~gz_ok
             THEN /\ calls' = Append(calls, export(0))
                  /\ proc' = ProcOk
                  /\ failures' = Append(failures, Failure(name, "OSError"))
             ELSE /\ calls' = calls \o <<export(0), client, upload(IF upload_ok THEN 0 ELSE 1)>>
                  /\ proc' = ProcOk
                  /\ IF upload_ok THEN UNCHANGED failures
                     ELSE failures' = Append(failures, Failure(name, "s3"))
    /\ UNCHANGED <<driver, pc, env, max_errors, db, object_key, local_file, tables,
                   answer, load, raised, started, scripts, exit_status, fn_arg, fn_ret>>

\* after the loop: sys.exit(1) if failures, else main() returns
BatchFinish ==
    /\ driver \in {"export", "merge"} /\ pc = "loop" /\ idx = Len(scripts)
    /\ pc' = "done"
    /\ exit_status' = IF failures # <<>> THEN 1 ELSE 0
    /\ UNCHANGED <<driver, env, max_errors, db, object_key, local_file, tables, answer,
                   proc, load, raised, calls, started, scripts, idx, failures,
                   fn_arg, fn_ret>>

(***************************************************************************)
(* Calls of single functions on arguments drawn from bounded sets          *)
(***************************************************************************)
IdleRun ==
    /\ env = <<>> /\ proc = ProcOk /\ raised = ""
    /\ calls = <<>> /\ started = <<>> /\ exit_status = 0
    /\ IdleImport /\ IdleBatch

\* file names: a free part, then a date-time stamp or something close to one,
\* then possibly a line break, then an extension
NameParts == SeqsUpTo({"a", ".", "_", "/", "\n"}, MaxPrefixLen)

InferInputs ==
    {p \o q \o m \o t \o e :
        p \in NameParts,
        q \in {<<>>, Stamp},
        m \in {Stamp,
               <<>>,
               <<"_", "2", "0", "2", "4", "0", "1", "1", "_", "0", "9", "3", "0", "0", "0">>,
               <<"_", "2", "0", "2", "4", "0", "1", "1", "5", "_", "0", "9", "3", "0", "0", "x">>},
        t \in {<<>>, <<"\n">>},
        e \in {BCP, BCP \o GZ, GZ, <<>>}}

InitInfer ==
    /\ driver = "infer_table_name_from_file"
    /\ pc = "call"
    /\ fn_arg \in InferInputs
    /\ fn_ret = <<>>
    /\ IdleRun

CallInfer ==
    /\ driver = "infer_table_name_from_file" /\ pc = "call"
    /\ fn_ret' = InferTableNameFromFile(fn_arg)
    /\ pc' = "return"
    /\ UNCHANGED <<driver, env, max_errors, db, object_key, local_file, tables, answer,
                   proc, load, raised, calls, started, scripts, idx, failures,
                   exit_status, fn_arg>>

NextInfer == CallInfer

SpecInfer == InitInfer /\ [][NextInfer]_vars

\* results of the bcp process and error files it may leave behind
BcpResults == [returncode : {0, 1, 2}, stdout : {<<>>, <<"o">>}, stderr : {<<>>, <<"e">>}]

ErrContents == {Unreadable} \cup SeqsUpTo({"r", "\n"}, MaxErrFileLen)

InitBulkLoad ==
    /\ driver = "run_bcp_import"
    /\ pc = "call"
    /\ fn_arg \in [error_file : {None, <<>>, ErrPath}, res : BcpResults,
                   err_content : ErrContents]
    /\ fn_ret = <<>>
    /\ IdleRun

CallRunBcpImport ==
    /\ driver = "run_bcp_import" /\ pc = "call"
    /\ fn_ret' = RunBcpImport(fn_arg.error_file, fn_arg.res, fn_arg.err_content)
    /\ pc' = "return"
    /\ UNCHANGED <<driver, env, max_errors, db, object_key, local_file, tables, answer,
                   proc, load, raised, calls, started, scripts, idx, failures,
                   exit_status, fn_arg>>

NextBulkLoad == CallRunBcpImport

SpecBulkLoad == InitBulkLoad /\ [][NextBulkLoad]_vars

\* names of files to load: a free part, a date-time stamp or none, an extension
NamingInputs ==
    {p \o m \o e :
        p \in SeqsUpTo({"a", ".", "[", " "}, MaxRawLen),
        m \in {Stamp, <<>>},
        e \in {BCP, BCP \o GZ, GZ}}

InitNaming ==
    /\ driver = "main"
    /\ pc = "decompress"
    /\ fn_arg \in NamingInputs
    /\ fn_ret = <<>>
    /\ IdleRun

\* main() from maybe_decompress_gzip to the names of the tables, for the file
\* fn_arg
CallNaming ==
    /\ driver = "main" /\ pc = "decompress"
    /\ local_file' = DecompressTarget(fn_arg)
    /\ tables' = TableNames(local_file')
    /\ pc' = "ensure"
    /\ UNCHANGED <<driver, env, max_errors, db, object_key, answer, proc, load, raised,
                   calls, started, scripts, idx, failures, exit_status, fn_arg, fn_ret>>

SpecNaming == InitNaming /\ [][CallNaming]_vars

\* raw table names: every text up to MaxRawLen over letters, dots, brackets
\* and blanks, the bracketed form of short parts, and the examples of the
\* documentation
Parts == SeqsUpTo({"a", " "}, MaxPartLen)

SALES == <<"S", "a", "l", "e", "s">>
ORDERS == <<"O", "r", "d", "e", "r", "s">>

BracketedForm(schema, table) == <<"[">> \o schema \o <<"]", ".", "[">> \o table \o <<"]">>
DottedForm(schema, table) == schema \o <<".">> \o table

RawInputs ==
    SeqsUpTo({"a", ".", "[", "]", " "}, MaxRawLen)
    \cup {BracketedForm(sc, tb) : sc \in Parts, tb \in Parts}
    \cup {DottedForm(sc, tb) : sc \in Parts, tb \in Parts}
    \cup {DottedForm(SALES, ORDERS), ORDERS, BracketedForm(DBO, ORDERS)}

InitParse ==
    /\ driver = "normalize_table_identifiers"
    /\ pc = "call"
    /\ fn_arg \in RawInputs
    /\ fn_ret = <<>>
    /\ IdleRun

\* parse_table_name(fn_arg) and normalize_table_identifiers(fn_arg)
CallParse ==
    /\ driver = "normalize_table_identifiers" /\ pc = "call"
    /\ fn_ret' = [schema    |-> ParseTableName(fn_arg)[1],
                  table     |-> ParseTableName(fn_arg)[2],
                  bracketed |-> NormalizeTableIdentifiers(fn_arg)[1],
                  bcp_name  |-> NormalizeTableIdentifiers(fn_arg)[2]]
    /\ pc' = "return"
    /\ UNCHANGED <<driver, env, max_errors, db, object_key, local_file, tables, answer,
                   proc, load, raised, calls, started, scripts, idx, failures,
                   exit_status, fn_arg>>

SpecParse == InitParse /\ [][CallParse]_vars

\* settings of BCP_KEEP_IDENTITY, BCP_MAX_ERRORS (the texts main() accepts) and
\* FIELD_TERMINATOR, and the error_file argument
InitCommand ==
    /\ driver = "run_bcp_import.cmd"
    /\ pc = "call"
    /\ fn_arg \in
          [keep_identity_env :
               {None, <<>>, <<"1">>, <<"0">>, <<"t", "r", "u", "e">>, <<"T", "R", "U", "E">>,
                <<"s", "i", "m">>, <<"n", "a", "o">>, <<" ", "N", " ">>,
                <<"F", "a", "l", "s", "e">>, <<"n", "o", "n">>, <<"x">>},
           max_errors_env : {None} \cup {t \in MaxErrorsTexts : ParseMaxErrors(t).ok},
           field_terminator : {<<";">>, <<"|">>},
           error_file : {None, <<>>, ErrPath}]
    /\ fn_ret = <<>>
    /\ IdleRun

\* main() reads the settings, run_bcp_import builds cmd
CallCommand ==
    /\ driver = "run_bcp_import.cmd" /\ pc = "call"
    /\ fn_ret' = BcpImportCommand(<<"b", "c", "p">>, DottedForm(DBO, <<"T">> \o STAGING),
                                  VSet, VSet, VSet, VSet, FileStamped,
                                  fn_arg.field_terminator,
                                  StrToBool(fn_arg.keep_identity_env, TRUE),
                                  ParseMaxErrors(fn_arg.max_errors_env).val,
                                  fn_arg.error_file)
    /\ pc' = "return"
    /\ UNCHANGED <<driver, env, max_errors, db, object_key, local_file, tables, answer,
                   proc, load, raised, calls, started, scripts, idx, failures,
                   exit_status, fn_arg>>

SpecCommand == InitCommand /\ [][CallCommand]_vars

\* resolve_object_key: S3_OBJECT_KEY absent, empty or set, and what the bucket lists
InitResolve ==
    /\ driver = "resolve_object_key"
    /\ pc = "call"
    /\ fn_arg \in [explicit_key : {None, <<>>, FilePlain, FileOther}, pages : Listings]
    /\ fn_ret = <<>>
    /\ IdleRun

\* the paginator is asked for the listing only past the early return;
\* fn_ret None stands for the RuntimeError
CallResolve ==
    /\ driver = "resolve_object_key" /\ pc = "call"
    /\ calls' = IF Truthy(fn_arg.explicit_key) THEN calls
                ELSE Append(calls, Call("s3", "list", <<>>, 0))
    /\ fn_ret' = ResolveObjectKey(fn_arg.explicit_key, fn_arg.pages)
    /\ raised' = IF fn_ret' = None THEN "resolve" ELSE raised
    /\ pc' = "return"
    /\ UNCHANGED <<driver, env, max_errors, db, object_key, local_file, tables, answer,
                   proc, load, started, scripts, idx, failures, exit_status, fn_arg>>

SpecResolve == InitResolve /\ [][CallResolve]_vars

\* maybe_decompress_gzip and compress_gzip: the paths of files, what a file
\* holds before compression, and what a file to decompress holds
GzipPaths ==
    {stem \o ext : stem \in SeqsUpTo({"a", "."}, MaxStemLen),
                   ext \in {GZ, BCP \o GZ, BCP, <<".", "G", "Z">>, <<>>}}
    \ {<<>>, <<".">>, <<".", ".">>}

Payloads == SeqsUpTo({0, 1}, MaxPayloadLen)

Contents ==
    Payloads \cup {Gzip(payload) : payload \in Payloads}
             \cup {DropLast(Gzip(payload), 1) : payload \in Payloads}

NoCall == [arg |-> None, before |-> <<>>, path |-> None, files |-> <<>>, raised |-> ""]

InitGzip ==
    /\ driver = "gzip"
    /\ fn_arg \in
          [copy : {"import_from_s3", "import_local"}, route : {"import"},
           path : GzipPaths, content : Contents]
          \cup [copy : {"import_from_s3", "import_local"}, route : {"export"},
                path : GzipPaths, content : Payloads]
    /\ pc = IF fn_arg.route = "export" THEN "compress" ELSE "decompress"
    /\ fn_ret = NoCall
    /\ IdleRun

\* compress_gzip on the file of the input; fn_ret records the call
CallCompress ==
    /\ driver = "gzip" /\ pc = "compress"
    /\ LET before == WriteFile(<<>>, fn_arg.path, fn_arg.content)
           r == CompressGzip(fn_arg.path, before)
       IN  fn_ret' = [arg |-> fn_arg.path, before |-> before, path |-> r.path,
                      files |-> r.files, raised |-> ""]
    /\ pc' = "decompress"
    /\ UNCHANGED <<driver, env, max_errors, db, object_key, local_file, tables, answer,
                   proc, load, raised, calls, started, scripts, idx, failures,
                   exit_status, fn_arg>>

\* maybe_decompress_gzip on the file of the input, or on what compress_gzip returned
CallDecompress ==
    /\ driver = "gzip" /\ pc = "decompress"
    /\ LET path == IF fn_ret = NoCall THEN fn_arg.path ELSE fn_ret.path
           before == IF fn_ret = NoCall
                     THEN WriteFile(<<>>, fn_arg.path, fn_arg.content)
                     ELSE fn_ret.files
           r == IF fn_arg.copy = "import_from_s3"
                THEN MaybeDecompressGzip(path, before)
                ELSE MaybeDecompressGzipLocal(path, before)
       IN  fn_ret' = [arg |-> path, before |-> before, path |-> r.path,
                      files |-> r.files, raised |-> r.raised]
    /\ pc' = "return"
    /\ UNCHANGED <<driver, env, max_errors, db, object_key, local_file, tables, answer,
                   proc, load, raised, calls, started, scripts, idx, failures,
                   exit_status, fn_arg>>

NextGzip == CallCompress \/ CallDecompress

SpecGzip == InitGzip /\ [][NextGzip]_vars

\* merge.py at its loop: the scripts are the names of some files of the
\* directory, in the order of sorted(); every pair of a prefix and a suffix of
\* determine_targets, and two names in another case
MergeScriptList ==
    LET us == <<"_">>
        both == <<"b", "o", "t", "h">>
        stage == <<"s", "t", "a", "g", "e">>
        dest == <<"d", "e", "s", "t">>
        Stage == <<"S", "t", "a", "g", "e">>
        Dest == <<"D", "e", "s", "t">>
    IN  << 
           Stage \o us \o <<"x">> \o SQL,
           both \o us \o <<"x">> \o SQL,
           both \o us \o <<"x">> \o us \o both \o SQL,
           both \o us \o <<"x">> \o us \o dest \o SQL,
           both \o us \o <<"x">> \o us \o stage \o SQL,
           dest \o us \o <<"x">> \o SQL,
           dest \o us \o <<"x">> \o us \o both \o SQL,
           dest \o us \o <<"x">> \o us \o dest \o SQL,
           dest \o us \o <<"x">> \o us \o stage \o SQL,
           stage \o us \o <<"x">> \o SQL,
           stage \o us \o <<"x">> \o us \o both \o SQL,
           stage \o us \o <<"x">> \o us \o dest \o SQL,
           stage \o us \o <<"x">> \o us \o stage \o SQL,
           <<"x">> \o SQL,
           <<"x">> \o us \o Dest \o SQL,
           <<"x">> \o us \o both \o SQL,
           <<"x">> \o us \o dest \o SQL,
           <<"x">> \o us \o stage \o SQL >>

InitMerge ==
    /\ driver = "merge"
    /\ pc = "loop"
    /\ env = BaseEnv("merge")
    /\ \E I \in SUBSET (1..Len(MergeScriptList)) :
         /\ I # {} /\ Cardinality(I) <= MaxMergeScripts
         /\ scripts = SelectSeq(MergeScriptList,
                                LAMBDA n : \E i \in I : MergeScriptList[i] = n)
    /\ idx = 0 /\ failures = <<>>
    /\ proc = ProcOk /\ raised = ""
    /\ calls = <<>> /\ started = <<>> /\ exit_status = 0
    /\ IdleImport /\ IdleFn

SpecMerge == InitMerge /\ [][MergeScript \/ BatchFinish]_vars

(***************************************************************************)
(* The drivers                                                             *)
(***************************************************************************)
Init == InitImport \/ InitBatch

Next ==
    \/ ImportConfigure
    \/ Resolve
    \/ Download
    \/ Decompress
    \/ Normalize
    \/ EnsureStaging
    \/ Confirm
    \/ Truncate
    \/ BulkLoad
    \/ BatchConfigure
    \/ MergeScript
    \/ ExportScript
    \/ BatchFinish

Spec == Init /\ [][Next]_vars

(***************************************************************************)
(* Properties                                                              *)
(***************************************************************************)
Imports == {"s3", "local"}
Batches == {"export", "merge"}

StageOrder == <<"resolve", "normalize", "ensure", "confirm", "truncate", "load">>

FailedCalls == {i \in DOMAIN calls : calls[i].rc # 0}

C1_Stages ==
    driver \in Imports =>
        /\ \E k \in 0..Len(StageOrder) : started = SubSeq(StageOrder, 1, k)
        /\ FailedCalls # {} => pc = "done" /\ exit_status = 1
        /\ FailedCalls \subseteq {Len(calls)}
        /\ raised # "" => pc = "done" /\ exit_status = 1
        /\ (pc = "done" /\ exit_status = 0) => (started = StageOrder /\ raised = "")
        /\ exit_status # 0 => pc = "done"

C1_Step ==
    (driver \in Imports /\ started' # started) =>
        /\ raised = "" /\ exit_status = 0 /\ pc # "done" /\ FailedCalls = {}
        /\ Len(started') = Len(started) + 1

\* C1: an import run starts its stages in the order resolve, normalize,
\* ensure, confirm, truncate, load; a stage starts only while no earlier stage
\* has failed, and a failed stage ends the run with exit status 1, nothing
\* started or invoked after it.
C1_StagesInOrder == [] C1_Stages /\ [][C1_Step]_vars

\* a run that failed in the truncate stage, after five stages were started
C1_Witness ==
    /\ driver \in Imports
    /\ raised = "truncate"
    /\ started = SubSeq(StageOrder, 1, 5)
    /\ exit_status = 1

TruncateCalls == {i \in DOMAIN calls : calls[i].op = "truncate"}

Confirmed == driver \in Imports /\ "confirm" \in {started[i] : i \in DOMAIN started}

\* the typed text is the token, in any letter case
EqualsTokenIgnoringCase(typed) == Lower(typed) = Lower(SIM)

\* the typed text is blanks, then the token in any letter case, then blanks
EqualsTokenTrimmed(typed) ==
    \E i \in 0..Len(typed), j \in 0..Len(typed) :
        /\ i <= j
        /\ \A k \in 1..i : typed[k] \in Whitespace
        /\ \A k \in (j + 1)..Len(typed) : typed[k] \in Whitespace
        /\ Lower(SubSeq(typed, i + 1, j)) = Lower(SIM)

EnsureStep == driver \in Imports /\ pc = "ensure" /\ pc' # "ensure"

\* the server raised an error while it evaluated the statement
ServerFailed(p) == p \in {ProcServer, ProcQuiet}

\* C3 as stated: whenever the staging table exists, the statement of
\* ensure_staging_table succeeds and leaves the database unchanged, in both
\* drivers.
C3_AlwaysSucceeds ==
    [][(EnsureStep /\ proc' # ProcFault /\ Exists(db, tables.table_for_sql)) =>
           (pc' = "confirm" /\ db' = db)]_vars

\* C3 amended: whenever the staging table exists, the statement of
\* ensure_staging_table leaves the database unchanged, and sent again it gives
\* the same database and the same outcome; the server evaluates it without
\* error in import_local.py, and in import_from_s3.py exactly when the base
\* table exists, and without a server error the call succeeds.
C3_NoOpWhenStagingExists ==
    [][(EnsureStep /\ proc' # ProcFault /\ Exists(db, tables.table_for_sql)) =>
           /\ db' = db
           /\ ~ServerFailed(proc') <=>
                 (driver = "local" \/ Exists(db, tables.base_table_for_sql))
           /\ ~ServerFailed(proc') => pc' = "confirm"
           /\ pc' # "confirm" => (pc' = "done" /\ exit_status' = 1)
           /\ LET again == EnsureStagingStatement(driver, db', tables.base_table_for_sql,
                                                  tables.table_for_sql)
              IN  /\ again.db = db'
                  /\ again.error = ServerFailed(proc')]_vars

\* ensure_staging_table returned although the staging table held rows
C3_Witness ==
    /\ driver \in Imports /\ pc = "confirm"
    /\ Exists(db, tables.table_for_sql)
    /\ db[tables.table_for_sql].rows > 0

\* C4: the statement of ensure_staging_table fails on the server whenever the
\* base table does not exist, whether or not the staging table exists, in both
\* drivers.
C4_BaseTableChecked ==
    [][(EnsureStep /\ proc' # ProcFault /\ ~Exists(db, tables.base_table_for_sql)) =>
           ServerFailed(proc')]_vars

\* number of lines of a text: the "\n"-terminated ones and an unterminated last one
LineCount(text) ==
    Cardinality({i \in 1..Len(text) : text[i] = "\n"})
    + (IF text # <<>> /\ text[Len(text)] # "\n" THEN 1 ELSE 0)

\* the first m lines of a text, m > 0
FirstLines(text, m) ==
    IF LineCount(text) <= m THEN text
    ELSE SubSeq(text, 1,
                CHOOSE i \in 1..Len(text) :
                    /\ text[i] = "\n"
                    /\ Cardinality({j \in 1..i : text[j] = "\n"}) = m)

\* C5: run_bcp_import returns without reading the error file when bcp exits
\* with 0; when bcp exits non-zero it raises an error carrying the exit code,
\* stdout, stderr and the first min(5, n) lines of the n-line error file in file
\* order, and no sample when the file is empty or unreadable or no path is set.
C5_LoadOutcome ==
    (driver = "run_bcp_import" /\ pc = "return") =>
        IF fn_arg.res.returncode = 0
        THEN ~fn_ret.raised /\ ~fn_ret.opened /\ fn_ret.readlines = 0
        ELSE /\ fn_ret.raised
             /\ fn_ret.returncode = fn_arg.res.returncode
             /\ fn_ret.stdout = fn_arg.res.stdout
             /\ fn_ret.stderr = fn_arg.res.stderr
             /\ fn_ret.example_rows =
                    IF fn_arg.error_file \in {None, <<>>} \/ fn_arg.err_content = Unreadable
                    THEN <<>>
                    ELSE FirstLines(fn_arg.err_content, 5)
             /\ LineCount(fn_ret.example_rows) <= 5
             /\ (fn_ret.sample_file = <<>>) <=> (fn_ret.example_rows = <<>>)

\* bcp failed and left six rejected rows: the error carries five of them
C5_Witness ==
    /\ driver = "run_bcp_import" /\ pc = "return"
    /\ fn_arg.res.returncode # 0
    /\ fn_arg.error_file = ErrPath
    /\ fn_arg.err_content # Unreadable
    /\ LineCount(fn_arg.err_content) = 6
    /\ LineCount(fn_ret.example_rows) = 5

EntriesFor(name) == {k \in DOMAIN failures : failures[k].name = name}
CallsFor(name) == {k \in DOMAIN calls : calls[k].arg = name}
ToolFailed(name) == \E k \in CallsFor(name) : calls[k].rc # 0

\* C6: in the export and merge drivers a script whose external tool fails gets
\* exactly one failure entry, a script without failure entry was run with every
\* tool call succeeding, the loop goes on to the end of the batch, and the
\* process exits with 1 if and only if some failure was recorded.
C6_FailuresIsolated ==
    (driver \in Batches /\ scripts # <<>>) =>
        /\ \A i \in 1..idx :
             /\ Cardinality(EntriesFor(scripts[i])) <= 1
             /\ ToolFailed(scripts[i]) => Cardinality(EntriesFor(scripts[i])) = 1
             /\ EntriesFor(scripts[i]) = {} =>
                    (CallsFor(scripts[i]) # {} /\ ~ToolFailed(scripts[i]))
        /\ \A k \in DOMAIN failures : \E i \in 1..idx : failures[k].name = scripts[i]
        /\ \A i \in (idx + 1)..Len(scripts) : CallsFor(scripts[i]) = {}
        /\ pc = "done" => idx = Len(scripts) /\ (exit_status = 1 <=> failures # <<>>)
        /\ pc # "done" => exit_status = 0

\* three merge scripts, the second failed in sqlcmd, the first and third ran
C6_Witness ==
    /\ driver = "merge" /\ pc = "done" /\ exit_status = 1
    /\ Len(scripts) = 3
    /\ Len(failures) = 1
    /\ failures[1] = Failure(scripts[2], "sqlcmd")
    /\ CallsFor(scripts[1]) # {} /\ CallsFor(scripts[3]) # {}

\* C7: no external invocation is issued twice in a run: the client creation,
\* listing and download, each statement of the SQL runner, each bcp call and
\* each merge script per connection occur at most once per file or script.
C7_NoRetry ==
    \A i \in DOMAIN calls : \A j \in DOMAIN calls :
        i # j => <<calls[i].tool, calls[i].op, calls[i].arg>>
                 # <<calls[j].tool, calls[j].op, calls[j].arg>>

\* TRUNCATE failed in the runner and the run ended
C7_Witness ==
    /\ pc = "done"
    /\ \E i \in TruncateCalls : calls[i].rc # 0 /\ proc = ProcFault

\* the text starts with "-" and continues with digits that are not all zero
IsNegativeNumeral(text) ==
    /\ Len(text) >= 2 /\ text[1] = "-"
    /\ AllDigits(Tail(text))
    /\ \E i \in 2..Len(text) : text[i] # "0"

\* the text is not an optional sign followed by digits
IsNoNumeral(text) ==
    LET ds == IF text # <<>> /\ text[1] \in {"-", "+"} THEN Tail(text) ELSE text
    IN  ds = <<>> \/ ~AllDigits(ds)

\* C8: with a negative or non-integer BCP_MAX_ERRORS an import driver ends with
\* a configuration error before any external invocation; with BCP_MAX_ERRORS
\* absent the value used is 1.
C8_MaxErrorsRejected ==
    driver \in Imports =>
        /\ (env["BCP_MAX_ERRORS"] # None
            /\ (IsNegativeNumeral(env["BCP_MAX_ERRORS"]) \/ IsNoNumeral(env["BCP_MAX_ERRORS"])))
           => /\ calls = <<>> /\ started = <<>>
              /\ pc \in {"config", "done"}
              /\ pc = "done" => exit_status = 1 /\ raised = "config"
        /\ (env["BCP_MAX_ERRORS"] = None /\ pc # "config") => max_errors = 1

\* BCP_MAX_ERRORS = "-1": the run ended with the configuration error
C8_Witness ==
    /\ driver \in Imports /\ pc = "done"
    /\ env["BCP_MAX_ERRORS"] = <<"-", "1">>
    /\ raised = "config" /\ calls = <<>>

Drivers == Imports \cup Batches

\* C9: in every driver, when a required setting is unset or empty the run ends
\* with a configuration error and no storage client is created and no SQL
\* runner or bcp process is started.
C9_ConfigErrorBeforeCalls ==
    (driver \in Drivers /\ \E n \in Required(driver) : env[n] \in {None, <<>>}) =>
        /\ calls = <<>> /\ started = <<>> /\ scripts = <<>>
        /\ pc \in {"config", "done"}
        /\ pc = "done" => exit_status = 1 /\ raised = "config"

\* the export driver ended with the configuration error: S3_BUCKET is empty
C9_Witness ==
    /\ driver = "export" /\ pc = "done"
    /\ env["S3_BUCKET"] = <<>>
    /\ raised = "config" /\ calls = <<>>

\* length of the extension .bcp or .bcp.gz of a name, 0 when it has neither
ConventionExt(name) ==
    IF EndsWith(name, BCP \o GZ) THEN Len(BCP \o GZ)
    ELSE IF EndsWith(name, BCP) THEN Len(BCP)
    ELSE 0

IsDateTimeStamp(text) ==
    /\ Len(text) = 16
    /\ text[1] = "_" /\ \A i \in 2..9 : text[i] \in Digits
    /\ text[10] = "_" /\ \A i \in 11..16 : text[i] \in Digits

\* the name is <prefix>_<8 digits>_<6 digits>.bcp[.gz]
MatchesConvention(name) ==
    /\ ConventionExt(name) > 0
    /\ Len(name) - ConventionExt(name) >= 16
    /\ IsDateTimeStamp(SubSeq(name, Len(name) - ConventionExt(name) - 15,
                              Len(name) - ConventionExt(name)))

ConventionPrefix(name) == SubSeq(name, 1, Len(name) - ConventionExt(name) - 16)

InferReturned == driver = "infer_table_name_from_file" /\ pc = "return"

\* C10 as stated: for a name <prefix>_<8 digits>_<6 digits>.bcp[.gz],
\* infer_table_name_from_file returns the prefix, for every prefix.
C10_PrefixAlways ==
    (InferReturned /\ MatchesConvention(fn_arg)) => fn_ret = ConventionPrefix(fn_arg)

\* C10 amended: for a name <prefix>_<8 digits>_<6 digits>.bcp[.gz] whose prefix
\* is not empty and holds no path separator and no line break,
\* infer_table_name_from_file returns the prefix.
C10_PrefixWhenNonEmpty ==
    (/\ InferReturned
     /\ MatchesConvention(fn_arg)
     /\ ConventionPrefix(fn_arg) # <<>>
     /\ ~Contains(ConventionPrefix(fn_arg), "/")
     /\ ~Contains(ConventionPrefix(fn_arg), "\n"))
    => fn_ret = ConventionPrefix(fn_arg)

\* a prefix with a dot that itself ends in a date-time stamp
C10_Witness ==
    /\ InferReturned
    /\ fn_arg = <<"a", ".">> \o Stamp \o Stamp \o BCP \o GZ
    /\ fn_ret = <<"a", ".">> \o Stamp

\* a name with a trailing ".gz" removed
WithoutGz(name) == IF EndsWith(name, GZ) THEN DropLast(name, Len(GZ)) ELSE name

\* the name ends in an extension: a dot that is not its first character,
\* followed by at least one character and no further dot
ExtensionAt(name) ==
    {i \in 2..(Len(name) - 1) : name[i] = "." /\ \A j \in (i + 1)..Len(name) : name[j] # "."}

\* the name with its extension, if it has one, removed
WithoutExtension(name) ==
    IF ExtensionAt(name) = {} THEN name
    ELSE SubSeq(name, 1, (CHOOSE i \in ExtensionAt(name) : TRUE) - 1)

\* the text ends in _<8 digits>_<6 digits>
EndsInStamp(text) ==
    Len(text) >= StampLen /\ IsDateTimeStamp(SubSeq(text, Len(text) - StampLen + 1, Len(text)))

\* the argument is the name of a file: no path separator, not the directory "."
IsFileName(name) == ~Contains(name, "/") /\ name # <<".">>

\* C11: for a file name whose stem does not end in _<8 digits>_<6 digits>,
\* infer_table_name_from_file returns the name with a trailing .gz and then one
\* extension removed, and nothing else of it altered.
C11_StemUnchanged ==
    (/\ InferReturned
     /\ IsFileName(fn_arg)
     /\ ~EndsInStamp(WithoutExtension(WithoutGz(fn_arg))))
    => fn_ret = WithoutExtension(WithoutGz(fn_arg))

ParseReturned == driver = "normalize_table_identifiers" /\ pc = "return"

\* the text without the characters of C at its two ends
TrimEnds(text, C) ==
    IF \A i \in 1..Len(text) : text[i] \in C THEN <<>>
    ELSE LET first == CHOOSE i \in 1..Len(text) :
                          text[i] \notin C /\ \A j \in 1..(i - 1) : text[j] \in C
             last  == CHOOSE i \in 1..Len(text) :
                          text[i] \notin C /\ \A j \in (i + 1)..Len(text) : text[j] \in C
         IN  SubSeq(text, first, last)

\* the input of parse_table_name with whitespace, then square brackets, trimmed
Trimmed(raw) == TrimEnds(TrimEnds(raw, Whitespace), {"[", "]"})

\* C12: parse_table_name returns for every text; when the trimmed text holds
\* a ".", schema is the part before the first "." and table all that follows
\* it; otherwise schema is dbo and table the trimmed text.
C12_SplitsOnFirstDot ==
    ParseReturned =>
        IF Contains(Trimmed(fn_arg), ".")
        THEN /\ ~Contains(fn_ret.schema, ".")
             /\ fn_ret.schema \o <<".">> \o fn_ret.table = Trimmed(fn_arg)
        ELSE fn_ret.schema = DBO /\ fn_ret.table = Trimmed(fn_arg)

\* "a.a.a" gave schema "a" and table "a.a": the second dot stays in the table
C12_Witness ==
    /\ ParseReturned
    /\ fn_arg = <<"a", ".", "a", ".", "a">>
    /\ fn_ret.schema = <<"a">>
    /\ fn_ret.table = <<"a", ".", "a">>

NoBrackets(text) == ~Contains(text, "[") /\ ~Contains(text, "]")

\* C13: for schema s and table n without ".", "[" and "]",
\* parse_table_name("[s].[n]") returns s and n, no bracket left in either.
C13_BracketedForm ==
    ParseReturned =>
        \A sc \in Parts \cup {DBO}, tb \in Parts \cup {ORDERS} :
            fn_arg = BracketedForm(sc, tb) =>
                /\ fn_ret.schema = sc /\ fn_ret.table = tb
                /\ NoBrackets(fn_ret.schema) /\ NoBrackets(fn_ret.table)

\* the identities of the round trip: parts without ".", "[" and "]"
Identities == Parts \X Parts

RoundTrips(x) ==
    fn_arg = DottedForm(x[1], x[2]) =>
        /\ fn_ret.bracketed = BracketedForm(x[1], x[2])
        /\ fn_ret.bcp_name = DottedForm(x[1], x[2])

\* C14 as stated: for every identity x whose parts hold no ".", "[" or "]",
\* parts that are empty or begin or end with whitespace included, rendering the
\* parse of the dotted form of x gives the rendering of x.
C14_RoundTripAlways ==
    ParseReturned => \A x \in Identities : RoundTrips(x)

\* C14 amended: the same for every identity x whose schema does not begin with
\* whitespace and whose table does not end with whitespace.
C14_RoundTripUnpadded ==
    ParseReturned =>
        \A x \in Identities :
            (/\ x[1] = <<>> \/ x[1][1] \notin Whitespace
             /\ x[2] = <<>> \/ x[2][Len(x[2])] \notin Whitespace)
            => RoundTrips(x)

\* the identity with schema "a " and table " a" went round
C14_Witness ==
    /\ ParseReturned
    /\ fn_arg = <<"a", " ", ".", " ", "a">>
    /\ fn_ret.bracketed = BracketedForm(<<"a", " ">>, <<" ", "a">>)

\* the run has derived the names of the tables
Named == driver \in Imports /\ tables # NoTables

HasEmptyPart(bracketed) ==
    StartsWith(bracketed, <<"[", "]", ".">>) \/ EndsWith(bracketed, <<".", "[", "]">>)

\* C16: the identity parse_table_name returns for the inferred name, and the
\* base and staging names an import run hands to the SQL runner and to bcp,
\* have a schema and a table that are not empty, for every file the run can
\* resolve.
C16_IdentityNonEmpty ==
    (Named /\ \E k \in DOMAIN calls : calls[k].op = "ensure") =>
        /\ ParseTableName(tables.raw_table)[1] # <<>>
        /\ ParseTableName(tables.raw_table)[2] # <<>>
        /\ ~HasEmptyPart(tables.base_table_for_sql)
        /\ ~HasEmptyPart(tables.table_for_sql)

\* C20: the table an import run truncates is the staging table of the base
\* table: its name ends in _STAGING, its bracketed name differs from the base
\* table's, it has the schema of the base identity, and the same identity is
\* used for ensure-staging, for TRUNCATE and, dotted, as target of bcp.
C20_TruncatesStagingOnly ==
    (driver = "main" /\ pc = "ensure") =>
        LET base == ParseTableName(tables.raw_table)
        IN  /\ EndsWith(tables.table_for_sql, STAGING \o <<"]">>)
            /\ tables.table_for_sql # tables.base_table_for_sql
            /\ tables.base_table_for_sql = BracketedForm(base[1], base[2])
            /\ tables.table_for_sql = BracketedForm(base[1], base[2] \o STAGING)
            /\ tables.table_for_bcp = DottedForm(base[1], base[2] \o STAGING)

CommandBuilt == driver = "run_bcp_import.cmd" /\ pc = "return"

HasFlag(cmd, letter) == \E i \in 1..Len(cmd) : cmd[i] = Flag(letter)

\* the flag is in cmd once, followed by the value
HasOption(cmd, letter, value) ==
    /\ Cardinality({i \in 1..Len(cmd) : cmd[i] = Flag(letter)}) = 1
    /\ \E i \in 1..(Len(cmd) - 1) : cmd[i] = Flag(letter) /\ cmd[i + 1] = value

\* the setting is one of the words that switch the option off
SaysNo(text) ==
    /\ text # None
    /\ \E i \in 0..Len(text), j \in 0..Len(text) :
         /\ i <= j
         /\ \A k \in 1..i : text[k] \in Whitespace
         /\ \A k \in (j + 1)..Len(text) : text[k] \in Whitespace
         /\ Lower(SubSeq(text, i + 1, j)) \in
                {<<"0">>, <<"f", "a", "l", "s", "e">>, <<"f">>, <<"n", "o">>, <<"n">>,
                 <<"n", "a", "o">>}

\* a numeral without sign and without leading zero
IsCanonicalNumeral(text) ==
    text # <<>> /\ AllDigits(text) /\ (text[1] = "0" => Len(text) = 1)

\* C17: the command of run_bcp_import has "in" as direction, -c and -t with
\* the configured field terminator; it has -E if and only if BCP_KEEP_IDENTITY
\* is not one of the words for no (absent and unknown words mean yes); it has
\* -m with the value of BCP_MAX_ERRORS, 1 when absent; it has -e with the path
\* if and only if an error-file path that is not empty is given.
C17_CommandFlags ==
    CommandBuilt =>
        /\ fn_ret[3] = <<"i", "n">>
        /\ HasFlag(fn_ret, "c")
        /\ HasOption(fn_ret, "t", fn_arg.field_terminator)
        /\ HasFlag(fn_ret, "E") <=> ~SaysNo(fn_arg.keep_identity_env)
        /\ \E i \in 1..(Len(fn_ret) - 1) :
             /\ fn_ret[i] = Flag("m")
             /\ IsCanonicalNumeral(fn_ret[i + 1])
             /\ DecimalValue(fn_ret[i + 1]) =
                    IF fn_arg.max_errors_env = None THEN 1
                    ELSE PyInt(fn_arg.max_errors_env).val
        /\ IF fn_arg.error_file \in {None, <<>>}
           THEN ~HasFlag(fn_ret, "e")
           ELSE HasOption(fn_ret, "e", fn_arg.error_file)

\* BCP_KEEP_IDENTITY = " N ": the command has no -E, and has -m 1 and -e
C17_Witness ==
    /\ CommandBuilt
    /\ fn_arg.keep_identity_env = <<" ", "N", " ">>
    /\ fn_arg.max_errors_env = None
    /\ ~HasFlag(fn_ret, "E")
    /\ HasOption(fn_ret, "m", <<"1">>)
    /\ HasOption(fn_ret, "e", ErrPath)

ResolveReturned == driver = "resolve_object_key" /\ pc = "return"

\* the objects of all pages, in the order listed
Listed == Flatten(fn_arg.pages)

\* positions of the listed objects whose key ends in .bcp or .bcp.gz, whatever the case
Matching ==
    {i \in 1..Len(Listed) :
        \E suffix \in {BCP, BCP \o GZ} :
            /\ Len(Listed[i].Key) >= Len(suffix)
            /\ Lower(SubSeq(Listed[i].Key, Len(Listed[i].Key) - Len(suffix) + 1,
                            Len(Listed[i].Key))) = suffix}

ExplicitGiven == fn_arg.explicit_key # None /\ fn_arg.explicit_key # <<>>

\* C18: an explicit key is returned as it is and nothing is listed; without one
\* the result is a listed key ending in .bcp or .bcp.gz, in any case, that no
\* other such key of any page is later than, and the resolution error is
\* raised if and only if no listed key has such an ending.
C18_ObjectSelection ==
    ResolveReturned =>
        IF ExplicitGiven
        THEN fn_ret = fn_arg.explicit_key /\ calls = <<>> /\ raised = ""
        ELSE /\ raised = "resolve" <=> Matching = {}
             /\ fn_ret = None <=> Matching = {}
             /\ Matching # {} =>
                    \E i \in Matching :
                        /\ fn_ret = Listed[i].Key
                        /\ \A j \in Matching :
                               Listed[j].LastModified <= Listed[i].LastModified

\* two pages; the later of two matching objects, key in upper case, is on the first
C18_Witness ==
    /\ ResolveReturned
    /\ ~ExplicitGiven
    /\ Len(fn_arg.pages[1]) = 1 /\ Len(fn_arg.pages[2]) = 1
    /\ fn_arg.pages[1][1] = [Key |-> FileUpperGz, LastModified |-> 2]
    /\ fn_arg.pages[2][1] = [Key |-> FileGzStamped, LastModified |-> 1]
    /\ fn_ret = FileUpperGz

Decompressed == driver = "gzip" /\ pc = "return"

\* the file given to maybe_decompress_gzip holds a complete gzip member
HoldsGzip == Gunzip(fn_ret.before[fn_ret.arg]).ok

\* C19: for a path ending in .gz, maybe_decompress_gzip writes the file at
\* the path without the .gz, holding exactly the bytes that were compressed,
\* and returns that path; for a path not ending in .gz it returns the path
\* and writes nothing. The copies of the two drivers give the same result,
\* and decompressing what compress_gzip wrote gives back the bytes compressed.
C19_Decompression ==
    Decompressed =>
        /\ (EndsWith(fn_ret.arg, GZ) /\ HoldsGzip) =>
               /\ fn_ret.raised = ""
               /\ fn_ret.path = DropLast(fn_ret.arg, Len(GZ))
               /\ fn_ret.path \in DOMAIN fn_ret.files
               /\ fn_ret.files[fn_ret.path] = Gunzip(fn_ret.before[fn_ret.arg]).payload
               /\ \A q \in DOMAIN fn_ret.before :
                      q # fn_ret.path => fn_ret.files[q] = fn_ret.before[q]
        /\ ~EndsWith(fn_ret.arg, GZ) =>
               /\ fn_ret.raised = ""
               /\ fn_ret.path = fn_ret.arg
               /\ fn_ret.files = fn_ret.before
        /\ MaybeDecompressGzip(fn_ret.arg, fn_ret.before)
               = MaybeDecompressGzipLocal(fn_ret.arg, fn_ret.before)
        /\ fn_arg.route = "export" =>
               /\ fn_ret.arg = fn_arg.path \o GZ
               /\ fn_ret.path = fn_arg.path
               /\ fn_ret.files[fn_ret.path] = fn_arg.content

\* the filename carries the marker: as a prefix with "_" or as a suffix before .sql
HasMarker(filename, word) ==
    \/ /\ Len(filename) >= Len(word) + 1
       /\ Lower(SubSeq(filename, 1, Len(word) + 1)) = word \o <<"_">>
    \/ /\ Len(filename) >= Len(word) + 5
       /\ Lower(SubSeq(filename, Len(filename) - Len(word) - 4, Len(filename)))
              = <<"_">> \o word \o SQL

\* the target set the precedence both > stage > dest gives
MarkedTargets(filename) ==
    IF HasMarker(filename, <<"b", "o", "t", "h">>) THEN {"stage", "dest"}
    ELSE IF HasMarker(filename, <<"s", "t", "a", "g", "e">>) THEN {"stage"}
    ELSE IF HasMarker(filename, <<"d", "e", "s", "t">>) THEN {"dest"}
    ELSE {}

\* the sqlcmd runs started for the script, in their order
RunsOf(name) == SelectSeq(calls, LAMBDA c : c.tool = "sqlcmd" /\ c.arg = name)

\* the failures recorded for the script
FailuresOf(name) == SelectSeq(failures, LAMBDA f : f.name = name)

\* C21: for every script merge.py has gone through, the connections run are
\* those of the first marker in the order both, stage, dest that the name
\* carries, each at most once; a name with no marker or a file that is empty
\* is recorded as a failure with no run of sqlcmd; for a both script the stage
\* run comes first, the destination run follows exactly when the stage run
\* exited with 0, and a run that exited non-zero is recorded as a failure.
C21_MergeDispatch ==
    (driver = "merge" /\ pc \in {"loop", "done"} /\ raised = "") =>
        \A k \in 1..idx :
            LET name == scripts[k]
                runs == RunsOf(name)
                fails == FailuresOf(name)
                targets == MarkedTargets(name)
            IN  /\ Len(fails) <= 1
                /\ \A i \in 1..Len(runs) : runs[i].op \in targets
                /\ \A i, j \in 1..Len(runs) : runs[i].op = runs[j].op => i = j
                /\ targets = {} => (runs = <<>> /\ Len(fails) = 1)
                /\ (fails # <<>> /\ fails[1].err \in {"ValueError", "FileNotFoundError",
                                                       "RuntimeError"}) => runs = <<>>
                /\ (fails # <<>> /\ fails[1].err = "RuntimeError") => targets = {}
                /\ (\E i \in 1..Len(runs) : runs[i].rc # 0) <=>
                       (fails # <<>> /\ fails[1].err = "sqlcmd")
                /\ (targets # {} /\ fails = <<>>) =>
                       {runs[i].op : i \in 1..Len(runs)} = targets
                /\ targets = {"stage", "dest"} =>
                       /\ runs # <<>> => runs[1].op = "stage"
                       /\ Len(runs) = 2 <=> (runs # <<>> /\ runs[1].rc = 0)

\* stage_x_dest.sql ran on the stage connection only; dest_x_both.sql ran on
\* the stage connection, which exited non-zero, and not on the destination
C21_Witness ==
    /\ driver = "merge" /\ pc = "done" /\ Len(scripts) = 2
    /\ Lower(scripts[1]) = <<"d", "e", "s", "t", "_", "x", "_", "b", "o", "t", "h">> \o SQL
    /\ Lower(scripts[2]) = <<"s", "t", "a", "g", "e", "_", "x", "_", "d", "e", "s", "t">> \o SQL
    /\ calls = <<Call("sqlcmd", "stage", scripts[1], 1), Call("sqlcmd", "stage", scripts[2], 0)>>
    /\ Len(failures) = 1 /\ failures[1].name = scripts[1]
    /\ exit_status = 1

\* the S3 driver has named the tables for a key that the listing selected
\* and that ends in .bcp.gz, in any case
SelectedCompressed ==
    /\ driver = "s3"
    /\ ~Truthy(env["S3_OBJECT_KEY"])
    /\ object_key # None
    /\ Len(object_key) >= Len(BCP \o GZ)
    /\ Lower(SubSeq(object_key, Len(object_key) - Len(BCP \o GZ) + 1, Len(object_key)))
           = BCP \o GZ
    /\ tables # NoTables

\* C22: a key that resolve_object_key selects as a .bcp.gz match is
\* decompressed before the bulk load, so the file given on has lost the
\* compression suffix, and the table name is the one inferred from the name
\* without the compression suffix, not one made of the .bcp extension.
C22_GzipTestsAgree ==
    SelectedCompressed =>
        /\ local_file = DropLast(PathName(object_key), Len(GZ))
        /\ tables.raw_table =
               InferTableNameFromFile(DropLast(PathName(object_key), Len(BCP \o GZ)) \o BCP)

====
